---- MODULE Spec2Model ----
(***************************************************************************)
(* AmoraDB storage-and-query engine: the Table (append-only log, resident  *)
(* map, pending writes/updates/deletes, compaction), the IndexManager      *)
(* (hash and sorted indices), the Query planner/executor and the LRU       *)
(* cache in front of disk reads.                                           *)
(*                                                                         *)
(* Records are functions from field names to values.  JS Maps and Sets     *)
(* keep insertion order, so they are modelled as sequences without         *)
(* repeated keys.  Under Spec and SpecStore every handler is one atomic     *)
(* action (single thread of control, success path of the file I/O); under  *)
(* SpecSave the background save(), flush() and truncate() advance from one *)
(* await to the next, interleaved with the caller and with I/O failures.   *)
(***************************************************************************)
EXTENDS Integers, Sequences, FiniteSets, TLC

\* ---------------------------------------------------------------- bounds
MaxId == 2
MaxVal == 1
MaxClock == 1
MaxPending == 2
MaxFile == 3
CacheSize == 1
MaxOps == 5
MaxStoreOps == 7
MaxSortLen == 11
MaxSortKey == 2
MaxSortLimit == 2

\* ------------------------------------------------------ program constants
batchSize == 1000
compactionThresholdNum == 3
compactionThresholdDen == 10
compactionBacklog == 10000
heapRatio == 10

Ids == 1..MaxId
Vals == 0..MaxVal
Times == 0..MaxClock
Fields == {"f"}

\* JS undefined (an absent property) and JS null (an absent record)
Undef == -1
Null == [null |-> TRUE]

VARIABLES data, cache, indices, pendingWrites, pendingUpdates, pendingDeletes,
          deletedIds, metadata, saveTimer, logFile, logExists,
          metaFile, clock, calls, sortIn, sortOut, aggIn, aggOut,
          savePc, saveLines, tempFile, writeQueue, queued,
          flushPc, flushLines, flushWait, truncPc,
          rebuilds, firstRebuild,
          timeouts, timerHandle, timersSet, promises, running, cancelled

tableVars == <<data, cache, indices, pendingWrites, pendingUpdates,
               pendingDeletes, deletedIds, metadata, saveTimer>>
diskVars == <<logFile, logExists, metaFile>>
sortVars == <<sortIn, sortOut>>
aggVars == <<aggIn, aggOut>>
\* the background save(): its position, the lines it is appending, the
\* temporary file, the settled state of the save queue and the saves chained
\* behind the one in flight
saveVars == <<savePc, saveLines, tempFile, writeQueue, queued>>
\* a flush() or truncate() of the caller that has not resolved yet
callVars == <<flushPc, flushLines, flushWait, truncPc>>
\* bookkeeping of the runs: the rebuilds of an index made in a row and the index
\* the first of them left
\* the debounce timer and the save queue in detail: the timeouts that are live,
\* the handle kept in this.saveTimer, the number of setTimeout calls, the
\* promises chained on writeQueue (one per save appended), the saves that are
\* executing, and the handles that were live when drop()/truncate() was called
queueVars == <<timeouts, timerHandle, timersSet, promises, running, cancelled>>
histVars == <<rebuilds, firstRebuild, queueVars>>
otherVars == <<sortVars, aggVars, saveVars, callVars, histVars>>
vars == <<tableVars, diskVars, clock, calls, otherVars>>

\* ------------------------------------------------------------- sequences
Range(s) == {s[i] : i \in 1..Len(s)}

\* Map (insertion-ordered, keyed by record._id)
MapHas(m, id) == \E i \in 1..Len(m) : m[i]["_id"] = id
MapGet(m, id) == m[CHOOSE i \in 1..Len(m) : m[i]["_id"] = id]
MapSet(m, id, r) ==
  IF MapHas(m, id)
  THEN [i \in 1..Len(m) |-> IF m[i]["_id"] = id THEN r ELSE m[i]]
  ELSE Append(m, r)
MapDelete(m, id) == SelectSeq(m, LAMBDA r : r["_id"] # id)
MapKeys(m) == {m[i]["_id"] : i \in 1..Len(m)}

RECURSIVE MapSetAll(_, _)
MapSetAll(m, recs) ==
  IF recs = <<>> THEN m
  ELSE MapSetAll(MapSet(m, Head(recs)["_id"], Head(recs)), Tail(recs))

\* Set.add on an insertion-ordered Set of ids
SetAdd(s, id) == IF id \in Range(s) THEN s ELSE Append(s, id)
SetDel(s, id) == SelectSeq(s, LAMBDA x : x # id)

\* object spread {...r, ...p}
Spread(r, p) ==
  [k \in DOMAIN r \cup DOMAIN p |-> IF k \in DOMAIN p THEN p[k] ELSE r[k]]

\* ----------------------------------------------------------- SimpleCache
CacheHas(c, id) == MapHas(c, id)

CacheSet(c, id, r) ==
  IF MapHas(c, id) THEN Append(MapDelete(c, id), r)
  ELSE IF Len(c) >= CacheSize THEN Append(Tail(c), r)
  ELSE Append(c, r)

\* get(): the value, and the cache with the entry's recency refreshed
CacheGetValue(c, id) == MapGet(c, id)
CacheGetTouch(c, id) == Append(MapDelete(c, id), MapGet(c, id))

CacheDelete(c, id) == MapDelete(c, id)

\* ---------------------------------------------------------- IndexManager
getFieldValue(record, field) ==
  IF field \in DOMAIN record THEN record[field] ELSE Undef

\* the first (up to) 10 present values are all numbers
isNumericOrDateField(d, field) ==
  /\ Len(d) > 0
  /\ \E i \in 1..Len(d) : getFieldValue(d[i], field) # Undef

HashEmpty == [v \in Vals |-> <<>>]

RECURSIVE HashBuild(_, _, _)
HashBuild(d, field, acc) ==
  IF d = <<>> THEN acc
  ELSE LET v == getFieldValue(Head(d), field)
       IN HashBuild(Tail(d), field,
            IF v = Undef THEN acc
            ELSE [acc EXCEPT ![v] = SetAdd(@, Head(d)["_id"])])

\* Array.prototype.sort is stable: insertion sort by value only
RECURSIVE SortedInsertStable(_, _)
SortedInsertStable(s, e) ==
  IF s = <<>> THEN <<e>>
  ELSE IF Head(s).value <= e.value THEN <<Head(s)>> \o SortedInsertStable(Tail(s), e)
  ELSE <<e>> \o s

RECURSIVE StableSortByValue(_, _)
StableSortByValue(s, acc) ==
  IF s = <<>> THEN acc
  ELSE StableSortByValue(Tail(s), SortedInsertStable(acc, Head(s)))

RECURSIVE SortedCollect(_, _)
SortedCollect(d, field) ==
  IF d = <<>> THEN <<>>
  ELSE LET v == getFieldValue(Head(d), field)
       IN (IF v = Undef THEN <<>> ELSE <<[value |-> v, id |-> Head(d)["_id"]]>>)
          \o SortedCollect(Tail(d), field)

SortedMapOf(d, field) ==
  [id \in {r["_id"] : r \in {x \in Range(d) : getFieldValue(x, field) # Undef}} |->
     getFieldValue(MapGet(d, id), field)]

IndexManager_createIndex(idx, field, d) ==
  LET new == IF isNumericOrDateField(d, field)
             THEN [type |-> "sorted",
                   values |-> StableSortByValue(SortedCollect(d, field), <<>>),
                   map |-> SortedMapOf(d, field)]
             ELSE [type |-> "hash", map |-> HashBuild(d, field, HashEmpty)]
  IN [k \in DOMAIN idx \cup {field} |-> IF k = field THEN new ELSE idx[k]]

IndexManager_dropIndex(idx, field) ==
  [k \in DOMAIN idx \ {field} |-> idx[k]]

updateHashIndex(field, index, id, oldRecord, newRecord) ==
  LET oldValue == IF oldRecord = Null THEN Undef ELSE getFieldValue(oldRecord, field)
      newValue == IF newRecord = Null THEN Undef ELSE getFieldValue(newRecord, field)
      m1 == IF oldValue # Undef /\ index.map[oldValue] # <<>>
            THEN [index.map EXCEPT ![oldValue] = SetDel(@, id)]
            ELSE index.map
      m2 == IF newValue # Undef
            THEN [m1 EXCEPT ![newValue] = SetAdd(@, id)]
            ELSE m1
  IN [index EXCEPT !.map = m2]

\* returns a 0-based position, or -1
RECURSIVE binarySearch(_, _, _, _, _)
binarySearch(arr, value, id, left, right) ==
  IF left > right THEN -1
  ELSE LET mid == (left + right) \div 2
           e == arr[mid + 1]
       IN IF e.value = value /\ e.id = id THEN mid
          ELSE IF e.value < value \/ (e.value = value /\ e.id < id)
               THEN binarySearch(arr, value, id, mid + 1, right)
               ELSE binarySearch(arr, value, id, left, mid - 1)

RECURSIVE findInsertPosition(_, _, _, _)
findInsertPosition(arr, value, left, right) ==
  IF left >= right THEN left
  ELSE LET mid == (left + right) \div 2
       IN IF arr[mid + 1].value <= value
          THEN findInsertPosition(arr, value, mid + 1, right)
          ELSE findInsertPosition(arr, value, left, mid)

\* arr.splice(pos, 1) and arr.splice(pos, 0, e), pos 0-based
SpliceOut(arr, pos) == SubSeq(arr, 1, pos) \o SubSeq(arr, pos + 2, Len(arr))
SpliceIn(arr, pos, e) == SubSeq(arr, 1, pos) \o <<e>> \o SubSeq(arr, pos + 1, Len(arr))

FnWithout(f, k) == [x \in DOMAIN f \ {k} |-> f[x]]
FnWith(f, k, v) == [x \in DOMAIN f \cup {k} |-> IF x = k THEN v ELSE f[x]]

updateSortedIndex(field, index, id, oldRecord, newRecord) ==
  LET oldValue == IF oldRecord # Null THEN getFieldValue(oldRecord, field)
                  ELSE IF id \in DOMAIN index.map THEN index.map[id] ELSE Undef
      doOld == (oldRecord # Null \/ id \in DOMAIN index.map) /\ oldValue # Undef
      pos == binarySearch(index.values, oldValue, id, 0, Len(index.values) - 1)
      v1 == IF doOld /\ pos >= 0 THEN SpliceOut(index.values, pos) ELSE index.values
      m1 == IF doOld THEN FnWithout(index.map, id) ELSE index.map
      newValue == IF newRecord = Null THEN Undef ELSE getFieldValue(newRecord, field)
      ins == findInsertPosition(v1, newValue, 0, Len(v1))
  IN IF newValue # Undef
     THEN [index EXCEPT !.values = SpliceIn(v1, ins, [value |-> newValue, id |-> id]),
                        !.map = FnWith(m1, id, newValue)]
     ELSE [index EXCEPT !.values = v1, !.map = m1]

updateIndices(idx, id, oldRecord, newRecord) ==
  [field \in DOMAIN idx |->
     IF idx[field].type = "sorted"
     THEN updateSortedIndex(field, idx[field], id, oldRecord, newRecord)
     ELSE updateHashIndex(field, idx[field], id, oldRecord, newRecord)]

removeFromIndices(idx, id, record) == updateIndices(idx, id, record, Null)

hasIndex(idx, field) == field \in DOMAIN idx
getIndexType(idx, field) == idx[field].type

\* findByIndex / findByRange return a Set of ids in insertion order (a sequence)
RECURSIVE FindExactSorted(_, _, _)
FindExactSorted(values, value, acc) ==
  IF values = <<>> THEN acc
  ELSE IF Head(values).value = value
       THEN FindExactSorted(Tail(values), value, SetAdd(acc, Head(values).id))
  ELSE IF Head(values).value > value THEN acc
  ELSE FindExactSorted(Tail(values), value, acc)

findByIndex(idx, field, value) ==
  IF idx[field].type = "sorted"
  THEN FindExactSorted(idx[field].values, value, <<>>)
  ELSE IF value \in Vals THEN idx[field].map[value] ELSE <<>>

\* min / max are Undef when the bound is not given
RECURSIVE FindRangeSorted(_, _, _, _, _, _)
FindRangeSorted(values, min, max, includeMin, includeMax, acc) ==
  IF values = <<>> THEN acc
  ELSE LET value == Head(values).value
           rest == Tail(values)
       IN IF min # Undef /\ (IF includeMin THEN value < min ELSE value <= min)
          THEN FindRangeSorted(rest, min, max, includeMin, includeMax, acc)
          ELSE IF max # Undef /\ (IF includeMax THEN value > max ELSE value >= max)
          THEN acc
          ELSE FindRangeSorted(rest, min, max, includeMin, includeMax,
                               SetAdd(acc, Head(values).id))

findByRange(idx, field, min, max, includeMin, includeMax) ==
  FindRangeSorted(idx[field].values, min, max, includeMin, includeMax, <<>>)

\* ------------------------------------------------------------------ Table
AutoSave == TRUE

Deleted(id) == id \in deletedIds \/ id \in pendingDeletes

\* the first line of the log holding id, or Null
RECURSIVE FirstLine(_, _)
FirstLine(lines, id) ==
  IF lines = <<>> THEN Null
  ELSE IF Head(lines)["_id"] = id THEN Head(lines)
  ELSE FirstLine(Tail(lines), id)

\* loadRecordById(id) run against cache c: the record (or Null) and the cache after
loadRecordById(c, id) ==
  IF Deleted(id) THEN [rec |-> Null, cache |-> c]
  ELSE IF MapHas(pendingUpdates, id) THEN [rec |-> MapGet(pendingUpdates, id), cache |-> c]
  ELSE IF MapHas(data, id) THEN [rec |-> MapGet(data, id), cache |-> c]
  ELSE IF CacheHas(c, id) THEN [rec |-> CacheGetValue(c, id), cache |-> CacheGetTouch(c, id)]
  ELSE LET line == IF logExists THEN FirstLine(logFile, id) ELSE Null
       IN IF line # Null THEN [rec |-> line, cache |-> CacheSet(c, id, line)]
          ELSE [rec |-> Null, cache |-> c]

\* get(id): the record (or Null) and the cache after
get(id) ==
  IF Deleted(id) THEN [rec |-> Null, cache |-> cache]
  ELSE IF MapHas(pendingUpdates, id) THEN [rec |-> MapGet(pendingUpdates, id), cache |-> cache]
  ELSE IF CacheHas(cache, id)
       THEN [rec |-> CacheGetValue(cache, id), cache |-> CacheGetTouch(cache, id)]
  ELSE IF MapHas(data, id)
       THEN [rec |-> MapGet(data, id), cache |-> CacheSet(cache, id, MapGet(data, id))]
  ELSE loadRecordById(cache, id)

needsCompaction(elapsed) ==
  LET totalOps == Len(pendingUpdates) + Cardinality(pendingDeletes) + Cardinality(deletedIds)
  IN \/ totalOps * compactionThresholdDen > metadata.recordCount * compactionThresholdNum
     \/ (totalOps > compactionBacklog /\ elapsed)

\* queueSave(): the debounce timer is (re)armed
queueSave == IF AutoSave THEN TRUE ELSE saveTimer

\* flushPendingWrites() on buffer pw: the log, the resident map and the buffer after
flushPendingWrites(pw) ==
  IF pw = <<>>
  THEN [logFile |-> logFile, logExists |-> logExists, data |-> data, pendingWrites |-> <<>>]
  ELSE [logFile |-> logFile \o pw, logExists |-> TRUE,
        data |-> MapSetAll(data, pw), pendingWrites |-> <<>>]

NowChoices == {clock} \cup ({clock + 1} \cap Times)

UsedIds ==
  MapKeys(data) \cup MapKeys(cache) \cup MapKeys(pendingWrites) \cup MapKeys(pendingUpdates)
  \cup MapKeys(logFile) \cup pendingDeletes \cup deletedIds

\* records a caller passes to insert(): an optional _id and an optional field f
InputRecords ==
  {[x \in {} |-> 0]} \cup {[f |-> v] : v \in Vals}
  \cup UNION {{[k \in {"_id"} |-> i], [k \in {"_id", "f"} |-> IF k = "_id" THEN i ELSE v]}
              : <<i, v>> \in Ids \X Vals}

Stamp(id, created, modified) ==
  [k \in {"_id", "_created", "_modified"} |->
     IF k = "_id" THEN id ELSE IF k = "_created" THEN created ELSE modified]

insertRecord(record, id, timestamp) == Spread(record, Stamp(id, timestamp, timestamp))

Insert(record, id, timestamp) ==
  LET fullRecord == insertRecord(record, id, timestamp)
      pw == Append(pendingWrites, fullRecord)
  IN /\ Len(pendingWrites) < MaxPending
     /\ IF "_id" \in DOMAIN record THEN id = record["_id"] ELSE id \in Ids \ UsedIds
     /\ cache' = CacheSet(cache, id, fullRecord)
     /\ indices' = updateIndices(indices, id, Null, fullRecord)
     /\ deletedIds' = deletedIds \ {id}
     /\ pendingDeletes' = pendingDeletes \ {id}
     /\ IF Len(pw) >= batchSize
        THEN /\ logFile' = flushPendingWrites(pw).logFile
             /\ logExists' = flushPendingWrites(pw).logExists
             /\ data' = flushPendingWrites(pw).data
             /\ pendingWrites' = flushPendingWrites(pw).pendingWrites
        ELSE /\ pendingWrites' = pw
             /\ UNCHANGED <<logFile, logExists, data>>
     /\ clock' = timestamp
     /\ UNCHANGED <<pendingUpdates, metadata, saveTimer, metaFile, otherVars>>

Get(id) ==
  /\ cache' = get(id).cache
  /\ UNCHANGED <<data, indices, pendingWrites, pendingUpdates, pendingDeletes, deletedIds,
                 metadata, saveTimer, diskVars, clock, otherVars>>

\* patches a caller passes to update()
Patches ==
  {[x \in {} |-> 0]} \cup {[f |-> v] : v \in Vals}
  \cup {[k \in {"_id", "_created", "f"} |-> IF k = "f" THEN v ELSE MaxClock + 1] : v \in Vals}

\* a faulty merge: the patch is spread last, over the reserved fields
updateRecord_PatchLast(record, updates, id, timestamp) ==
  Spread(Spread(record, Stamp(id, record["_created"], timestamp)), updates)

updateRecord(record, updates, id, timestamp) ==
  Spread(Spread(record, updates), Stamp(id, record["_created"], timestamp))

updateOldRecord(id, record) == IF MapHas(data, id) THEN MapGet(data, id) ELSE record

Update(id, updates, timestamp) ==
  LET got == get(id)
      record == got.rec
      oldRecord == updateOldRecord(id, record)
      updated == updateRecord(record, updates, id, timestamp)
  IN IF record = Null
     THEN /\ cache' = got.cache
          /\ UNCHANGED <<data, indices, pendingWrites, pendingUpdates, pendingDeletes,
                         deletedIds, metadata, saveTimer, diskVars, clock, otherVars>>
     ELSE /\ pendingUpdates' = MapSet(pendingUpdates, id, updated)
          /\ cache' = CacheSet(got.cache, id, updated)
          /\ indices' = updateIndices(indices, id, oldRecord, updated)
          /\ saveTimer' = queueSave
          /\ clock' = timestamp
          /\ UNCHANGED <<data, pendingWrites, pendingDeletes, deletedIds, metadata,
                         diskVars, otherVars>>

\* a faulty delete: the tombstone is not recorded
deleteMark_Forgotten(id) == pendingDeletes

deleteMark(id) == pendingDeletes \cup {id}

\* a faulty delete: the save is scheduled before the record is looked up
Delete_QueuesFirst(id) ==
  LET got == get(id)
      record == got.rec
  IN IF record = Null
     THEN /\ cache' = got.cache
          /\ saveTimer' = queueSave
          /\ UNCHANGED <<data, indices, pendingWrites, pendingUpdates, pendingDeletes,
                         deletedIds, metadata, diskVars, clock, otherVars>>
     ELSE /\ cache' = CacheDelete(got.cache, id)
          /\ indices' = removeFromIndices(indices, id, record)
          /\ pendingDeletes' = deleteMark(id)
          /\ saveTimer' = queueSave
          /\ UNCHANGED <<data, pendingWrites, pendingUpdates, deletedIds, metadata,
                         diskVars, clock, otherVars>>

Delete(id) ==
  LET got == get(id)
      record == got.rec
  IN IF record = Null
     THEN /\ cache' = got.cache
          /\ UNCHANGED <<data, indices, pendingWrites, pendingUpdates, pendingDeletes,
                         deletedIds, metadata, saveTimer, diskVars, clock, otherVars>>
     ELSE /\ cache' = CacheDelete(got.cache, id)
          /\ indices' = removeFromIndices(indices, id, record)
          /\ pendingDeletes' = deleteMark(id)
          /\ saveTimer' = queueSave
          /\ UNCHANGED <<data, pendingWrites, pendingUpdates, deletedIds, metadata,
                         diskVars, clock, otherVars>>

\* count() without a condition
count ==
  LET deletedCount == Cardinality(deletedIds) + Cardinality(pendingDeletes)
  IN IF Len(data) = metadata.recordCount \/ metadata.recordCount = 0
     THEN Len(data) + Len(pendingWrites) - deletedCount
     ELSE LET n == metadata.recordCount + Len(pendingWrites) - deletedCount
          IN IF n > 0 THEN n ELSE 0

Flush ==
  /\ Len(logFile) + Len(pendingWrites) <= MaxFile
  /\ logFile' = flushPendingWrites(pendingWrites).logFile
  /\ logExists' = flushPendingWrites(pendingWrites).logExists
  /\ data' = flushPendingWrites(pendingWrites).data
  /\ pendingWrites' = flushPendingWrites(pendingWrites).pendingWrites
  /\ UNCHANGED <<cache, indices, pendingUpdates, pendingDeletes, deletedIds, metadata,
                 saveTimer, metaFile, clock, otherVars>>

\* save(), the compaction pass: the first occurrence of an id in the old log
\* decides its place; deleted ids are skipped; a pending update replaces the line
RECURSIVE CompactLines(_, _, _)
CompactLines(lines, processedIds, out) ==
  IF lines = <<>> THEN [out |-> out, processedIds |-> processedIds]
  ELSE LET record == Head(lines)
           id == record["_id"]
       IN IF id \in processedIds THEN CompactLines(Tail(lines), processedIds, out)
          ELSE IF Deleted(id) THEN CompactLines(Tail(lines), processedIds \cup {id}, out)
          ELSE CompactLines(Tail(lines), processedIds \cup {id},
                 Append(out, IF MapHas(pendingUpdates, id)
                             THEN MapGet(pendingUpdates, id) ELSE record))

RECURSIVE CompactResident(_, _, _)
CompactResident(d, processedIds, out) ==
  IF d = <<>> THEN out
  ELSE LET record == Head(d)
           id == record["_id"]
       IN IF id \notin processedIds /\ ~Deleted(id)
          THEN CompactResident(Tail(d), processedIds,
                 Append(out, IF MapHas(pendingUpdates, id)
                             THEN MapGet(pendingUpdates, id) ELSE record))
          ELSE CompactResident(Tail(d), processedIds, out)

\* a faulty compaction: resident records are written whether or not the pass
\* over the log has written their id
compactedLog_ResidentAgain(lines, exists, d) ==
  LET pass == IF exists THEN CompactLines(lines, {}, <<>>)
              ELSE [out |-> <<>>, processedIds |-> {}]
  IN CompactResident(d, {}, pass.out)

\* the rewritten log, given the log and the resident map after flushPendingWrites
compactedLog(lines, exists, d) ==
  LET pass == IF exists THEN CompactLines(lines, {}, <<>>)
              ELSE [out |-> <<>>, processedIds |-> {}]
  IN CompactResident(d, pass.processedIds, pass.out)

RECURSIVE MapDeleteAll(_, _)
MapDeleteAll(m, ids) ==
  IF ids = {} THEN m
  ELSE LET id == CHOOSE x \in ids : TRUE
       IN MapDeleteAll(MapDelete(m, id), ids \ {id})

\* the resident map after the swap: pending updates merged, pending deletes removed
mergedData(d) == MapDeleteAll(MapSetAll(d, pendingUpdates), pendingDeletes)

\* saveMetadata(): the metadata record written to the side file
saveMetadata(d, idx) == [recordCount |-> Len(d), indices |-> DOMAIN idx]

save(elapsed) ==
  LET fl == flushPendingWrites(pendingWrites)
  IN /\ pendingWrites' = fl.pendingWrites
     /\ IF ~needsCompaction(elapsed) /\ Len(pendingUpdates) = 0 /\ pendingDeletes = {}
        THEN /\ logFile' = fl.logFile
             /\ logExists' = fl.logExists
             /\ data' = fl.data
             /\ UNCHANGED <<pendingUpdates, pendingDeletes, deletedIds, metadata,
                            metaFile>>
        ELSE /\ logFile' = compactedLog(fl.logFile, fl.logExists, fl.data)
             /\ logExists' = TRUE
             /\ data' = mergedData(fl.data)
             /\ pendingUpdates' = <<>>
             /\ pendingDeletes' = {}
             /\ deletedIds' = {}
             /\ metadata' = saveMetadata(data', indices)
             /\ metaFile' = [exists |-> TRUE, meta |-> metadata']

\* the debounce timer set by queueSave() expires and save() runs
SaveTimerFire(elapsed) ==
  /\ saveTimer
  /\ Len(logFile) + Len(pendingWrites) <= MaxFile
  /\ saveTimer' = FALSE
  /\ save(elapsed)
  /\ UNCHANGED <<cache, indices, clock, otherVars>>

\* buildIndicesFromFile(): updateIndices(id, null, record) for every line
RECURSIVE buildIndicesFromFile(_, _)
buildIndicesFromFile(idx, lines) ==
  IF lines = <<>> THEN idx
  ELSE buildIndicesFromFile(
         IF Head(lines)["_id"] \in deletedIds THEN idx
         ELSE updateIndices(idx, Head(lines)["_id"], Null, Head(lines)),
         Tail(lines))

createIndex(field) ==
  LET idx == IndexManager_createIndex(indices, field, data)
  IN IF Len(data) < metadata.recordCount /\ logExists
     THEN buildIndicesFromFile(idx, logFile)
     ELSE idx

CreateIndex(field) ==
  /\ indices' = createIndex(field)
  /\ saveTimer' = queueSave
  /\ UNCHANGED <<data, cache, pendingWrites, pendingUpdates, pendingDeletes, deletedIds,
                 metadata, diskVars, clock, otherVars>>

DropIndex(field) ==
  /\ hasIndex(indices, field)
  /\ indices' = IndexManager_dropIndex(indices, field)
  /\ saveTimer' = queueSave
  /\ UNCHANGED <<data, cache, pendingWrites, pendingUpdates, pendingDeletes, deletedIds,
                 metadata, diskVars, clock, otherVars>>

\* a new Table object over the same directory, then load()
NewMetadata == [recordCount |-> 0, indices |-> {}]

loadMetadata == IF metaFile.exists THEN metaFile.meta ELSE NewMetadata

loadMetadataIndices == [field \in loadMetadata.indices |-> [type |-> "hash", map |-> HashEmpty]]

loadAllRecords == IF logExists THEN MapSetAll(<<>>, logFile) ELSE <<>>

Load ==
  /\ metadata' = loadMetadata
  /\ data' = IF loadMetadata.recordCount <= CacheSize THEN loadAllRecords ELSE <<>>
  /\ indices' = IF logExists
                THEN buildIndicesFromFile(loadMetadataIndices, logFile)
                ELSE loadMetadataIndices
  /\ cache' = <<>>
  /\ pendingWrites' = <<>>
  /\ pendingUpdates' = <<>>
  /\ pendingDeletes' = {}
  /\ deletedIds' = {}
  /\ saveTimer' = FALSE
  /\ UNCHANGED <<diskVars, clock, otherVars>>

\* ------------------------------------------------------------------ Query
\* A condition object {field: value} or {field: {$op: value, ...}} is
\* [field, lit] or [field, ops]; ops is a function from operator names to values.
\* A condition function (closure) is [t |-> "cond", c] or [t |-> "or", l, r].
OpNames == {"eq", "ne", "gt", "gte", "lt", "lte"}

IsLiteral(c) == "lit" \in DOMAIN c

\* <, <=, >, >= of JS are false when the field value is undefined
evaluateOperator(fieldValue, operator) ==
  IF "eq" \in DOMAIN operator THEN fieldValue = operator["eq"]
  ELSE IF "ne" \in DOMAIN operator THEN fieldValue # operator["ne"]
  ELSE IF "gt" \in DOMAIN operator THEN fieldValue # Undef /\ fieldValue > operator["gt"]
  ELSE IF "gte" \in DOMAIN operator THEN fieldValue # Undef /\ fieldValue >= operator["gte"]
  ELSE IF "lt" \in DOMAIN operator THEN fieldValue # Undef /\ fieldValue < operator["lt"]
  ELSE IF "lte" \in DOMAIN operator THEN fieldValue # Undef /\ fieldValue <= operator["lte"]
  ELSE TRUE

buildCondition(c, record) ==
  IF IsLiteral(c) THEN getFieldValue(record, c.field) = c.lit
  ELSE evaluateOperator(getFieldValue(record, c.field), c.ops)

RECURSIVE EvalCondition(_, _)
EvalCondition(fn, record) ==
  IF fn.t = "cond" THEN buildCondition(fn.c, record)
  ELSE EvalCondition(fn.l, record) \/ buildCondition(fn.r, record)

NewQuery ==
  [conditions |-> <<>>, indexableConditions |-> <<>>, nonIndexableConditions |-> <<>>,
   limitCount |-> 0, skipCount |-> 0]

\* analyzeCondition(): the indexable and non-indexable lists after the call
analyzeCondition(q, idx, c) ==
  LET fn == [t |-> "cond", c |-> c]
      hasRangeOp == ~IsLiteral(c) /\ DOMAIN c.ops \cap {"gt", "gte", "lt", "lte"} # {}
  IN IF hasIndex(idx, c.field)
     THEN IF ~IsLiteral(c)
          THEN IF getIndexType(idx, c.field) = "sorted" /\ hasRangeOp
               THEN [q EXCEPT !.indexableConditions =
                       Append(@, [field |-> c.field, condition |-> c.ops, type |-> "range"])]
               ELSE IF "eq" \in DOMAIN c.ops
               THEN [q EXCEPT !.indexableConditions =
                       Append(@, [field |-> c.field, condition |-> c.ops, type |-> "exact"])]
               ELSE [q EXCEPT !.nonIndexableConditions = Append(@, fn)]
          ELSE [q EXCEPT !.indexableConditions =
                  Append(@, [field |-> c.field, condition |-> [o \in {"eq"} |-> c.lit],
                             type |-> "exact"])]
     ELSE [q EXCEPT !.nonIndexableConditions = Append(@, fn)]

where(q, idx, c) ==
  analyzeCondition([q EXCEPT !.conditions = Append(@, [t |-> "cond", c |-> c])], idx, c)

or(q, c) ==
  IF q.conditions = <<>> THEN q
  ELSE LET prevCondition == q.conditions[Len(q.conditions)]
           orCondition == [t |-> "or", l |-> prevCondition, r |-> c]
       IN [q EXCEPT !.conditions = Append(SubSeq(@, 1, Len(@) - 1), orCondition),
                    !.nonIndexableConditions = Append(@, orCondition)]

limit(q, n) == [q EXCEPT !.limitCount = n]
skip(q, n) == [q EXCEPT !.skipCount = n]

Intersect(ids, candidateSet) == SelectSeq(ids, LAMBDA id : id \in Range(candidateSet))

OpOr(operator, a, b) ==
  IF a \in DOMAIN operator THEN operator[a]
  ELSE IF b \in DOMAIN operator THEN operator[b] ELSE Undef

\* the ids one indexable condition selects
CandidateIds(idx, ic) ==
  IF ic.type = "range"
  THEN findByRange(idx, ic.field, OpOr(ic.condition, "gt", "gte"),
                   OpOr(ic.condition, "lt", "lte"),
                   "gte" \in DOMAIN ic.condition, "lte" \in DOMAIN ic.condition)
  ELSE IF "eq" \in DOMAIN ic.condition
  THEN findByIndex(idx, ic.field, ic.condition["eq"])
  ELSE <<>>

RECURSIVE IntersectAll(_, _, _)
IntersectAll(idx, ics, candidateSet) ==
  IF ics = <<>> \/ candidateSet = <<>> THEN candidateSet
  ELSE IntersectAll(idx, Tail(ics), Intersect(CandidateIds(idx, Head(ics)), candidateSet))

\* isNull when the query has no indexable condition, else the candidate ids
getIndexCandidateSet(q, idx) ==
  IF q.indexableConditions = <<>> THEN [isNull |-> TRUE, ids |-> <<>>]
  ELSE [isNull |-> FALSE,
        ids |-> IntersectAll(idx, Tail(q.indexableConditions),
                             CandidateIds(idx, Head(q.indexableConditions)))]

\* [results, cache] of executeWithIndex, the cache threaded through loadRecordById
RECURSIVE executeWithIndex(_, _, _)
executeWithIndex(ids, c, results) ==
  IF ids = <<>> THEN [results |-> results, cache |-> c]
  ELSE LET id == Head(ids)
       IN IF id \in pendingDeletes THEN executeWithIndex(Tail(ids), c, results)
          ELSE IF MapHas(pendingUpdates, id)
          THEN executeWithIndex(Tail(ids), c, Append(results, MapGet(pendingUpdates, id)))
          ELSE IF MapHas(data, id)
          THEN executeWithIndex(Tail(ids), c, Append(results, MapGet(data, id)))
          ELSE LET got == loadRecordById(c, id)
               IN executeWithIndex(Tail(ids), got.cache,
                    IF got.rec # Null THEN Append(results, got.rec) ELSE results)

Overlay(record) ==
  IF MapHas(pendingUpdates, record["_id"]) THEN MapGet(pendingUpdates, record["_id"])
  ELSE record

NotPendingDelete(records) == SelectSeq(records, LAMBDA r : r["_id"] \notin pendingDeletes)

OverlayAll(records) == [i \in 1..Len(records) |-> Overlay(records[i])]

\* streamResults(): at most maxToProcess lines of the log (0: no cap), then pendingWrites
RECURSIVE StreamLines(_, _, _)
StreamLines(lines, maxToProcess, results) ==
  IF lines = <<>> \/ (maxToProcess > 0 /\ Len(results) >= maxToProcess) THEN results
  ELSE StreamLines(Tail(lines), maxToProcess,
         IF Head(lines)["_id"] \in pendingDeletes THEN results
         ELSE Append(results, Overlay(Head(lines))))

streamResults(q) ==
  StreamLines(IF logExists THEN logFile ELSE <<>>,
              IF q.limitCount # 0 THEN (q.limitCount + q.skipCount) * 2 ELSE 0, <<>>)
  \o NotPendingDelete(pendingWrites)

residentScan == OverlayAll(NotPendingDelete(data)) \o NotPendingDelete(pendingWrites)

RECURSIVE FilterAll(_, _)
FilterAll(results, fns) ==
  IF fns = <<>> THEN results
  ELSE FilterAll(SelectSeq(results, LAMBDA r : EvalCondition(Head(fns), r)), Tail(fns))

Slice(results, from, n) ==
  SubSeq(results, from + 1, IF n = 0 \/ from + n > Len(results) THEN Len(results) ELSE from + n)

\* execute() of a query without a sort field: the result list
execute(q, idx) ==
  LET candidateSet == getIndexCandidateSet(q, idx)
      found == IF ~candidateSet.isNull
               THEN executeWithIndex(candidateSet.ids, cache, <<>>).results
               ELSE IF Len(data) < metadata.recordCount THEN streamResults(q)
               ELSE residentScan
  IN IF ~candidateSet.isNull /\ candidateSet.ids = <<>> THEN <<>>
     ELSE Slice(FilterAll(found, q.nonIndexableConditions), q.skipCount, q.limitCount)

\* the comparator of results.sort() in sortResults
compareSort(a, b, sortField, sortOrder) ==
  IF a[sortField] = b[sortField] THEN 0
  ELSE LET comparison == IF a[sortField] < b[sortField] THEN -1 ELSE 1
       IN IF sortOrder = "asc" THEN comparison ELSE -comparison

\* the comparator `compare` of heapSort
compareHeap(a, b, sortField, sortOrder) ==
  IF a[sortField] = b[sortField] THEN 0
  ELSE LET comparison == IF a[sortField] < b[sortField] THEN -1 ELSE 1
       IN IF sortOrder = "desc" THEN comparison ELSE -comparison

\* Array.prototype.sort (stable); heapOrder: the comparator is -compare of heapSort
Cmp(a, b, sortField, sortOrder, heapOrder) ==
  IF heapOrder THEN -compareHeap(a, b, sortField, sortOrder)
  ELSE compareSort(a, b, sortField, sortOrder)

RECURSIVE SortInsert(_, _, _, _, _)
SortInsert(s, e, sortField, sortOrder, heapOrder) ==
  IF s = <<>> THEN <<e>>
  ELSE IF Cmp(Head(s), e, sortField, sortOrder, heapOrder) <= 0
       THEN <<Head(s)>> \o SortInsert(Tail(s), e, sortField, sortOrder, heapOrder)
       ELSE <<e>> \o s

RECURSIVE ArraySort(_, _, _, _, _)
ArraySort(s, acc, sortField, sortOrder, heapOrder) ==
  IF s = <<>> THEN acc
  ELSE ArraySort(Tail(s), SortInsert(acc, Head(s), sortField, sortOrder, heapOrder),
                 sortField, sortOrder, heapOrder)

\* heap positions are 0-based as in the source
Swap(heap, i, j) ==
  [x \in 1..Len(heap) |-> IF x = i + 1 THEN heap[j + 1]
                          ELSE IF x = j + 1 THEN heap[i + 1] ELSE heap[x]]

RECURSIVE bubbleUp(_, _, _, _)
bubbleUp(heap, index, sortField, sortOrder) ==
  IF index <= 0 THEN heap
  ELSE LET parentIndex == (index - 1) \div 2
       IN IF compareHeap(heap[index + 1], heap[parentIndex + 1], sortField, sortOrder) >= 0
          THEN heap
          ELSE bubbleUp(Swap(heap, index, parentIndex), parentIndex, sortField, sortOrder)

RECURSIVE bubbleDown(_, _, _, _)
bubbleDown(heap, index, sortField, sortOrder) ==
  LET left == 2 * index + 1
      right == 2 * index + 2
      s1 == IF left < Len(heap)
               /\ compareHeap(heap[left + 1], heap[index + 1], sortField, sortOrder) < 0
            THEN left ELSE index
      smallest == IF right < Len(heap)
                     /\ compareHeap(heap[right + 1], heap[s1 + 1], sortField, sortOrder) < 0
                  THEN right ELSE s1
  IN IF smallest = index THEN heap
     ELSE bubbleDown(Swap(heap, index, smallest), smallest, sortField, sortOrder)

RECURSIVE HeapLoop(_, _, _, _, _, _)
HeapLoop(arr, i, heap, k, sortField, sortOrder) ==
  IF i > Len(arr) THEN heap
  ELSE IF Len(heap) < k
  THEN HeapLoop(arr, i + 1,
                bubbleUp(Append(heap, arr[i]), Len(heap), sortField, sortOrder),
                k, sortField, sortOrder)
  ELSE IF compareHeap(arr[i], heap[1], sortField, sortOrder) < 0
  THEN HeapLoop(arr, i + 1,
                bubbleDown([heap EXCEPT ![1] = arr[i]], 0, sortField, sortOrder),
                k, sortField, sortOrder)
  ELSE HeapLoop(arr, i + 1, heap, k, sortField, sortOrder)

\* heapSort(arr, k): arr with its first k places overwritten by the sorted heap
heapSort(arr, k, sortField, sortOrder) ==
  LET heap == ArraySort(HeapLoop(arr, 1, <<>>, k, sortField, sortOrder), <<>>,
                        sortField, sortOrder, TRUE)
  IN [i \in 1..Len(arr) |-> IF i <= k /\ i <= Len(heap) THEN heap[i] ELSE arr[i]]

\* limitCount 0 stands for no limit
sortResults(results, sortField, sortOrder, limitCount, skipCount) ==
  IF limitCount # 0 /\ skipCount = 0 /\ limitCount * heapRatio < Len(results)
  THEN heapSort(results, limitCount, sortField, sortOrder)
  ELSE ArraySort(results, <<>>, sortField, sortOrder, FALSE)

\* execute() from the sort on: sort, skip, limit
sortSkipLimit(results, sortField, sortOrder, limitCount, skipCount) ==
  Slice(sortResults(results, sortField, sortOrder, limitCount, skipCount),
        skipCount, limitCount)

find(idx, c) == where(NewQuery, idx, c)

ResultIds(results) == {results[i]["_id"] : i \in 1..Len(results)}

\* ---------------------------------------------------------- specification
HistInit ==
  /\ rebuilds = 0
  /\ firstRebuild = [field \in {} |-> 0]
  /\ timeouts = {}
  /\ timerHandle = 0
  /\ timersSet = 0
  /\ promises = <<>>
  /\ running = {}
  /\ cancelled = {}

Init ==
  /\ HistInit
  /\ data = <<>>
  /\ cache = <<>>
  /\ indices = [field \in {} |-> 0]
  /\ pendingWrites = <<>>
  /\ pendingUpdates = <<>>
  /\ pendingDeletes = {}
  /\ deletedIds = {}
  /\ metadata = NewMetadata
  /\ saveTimer = FALSE
  /\ logFile = <<>>
  /\ logExists = FALSE
  /\ metaFile = [exists |-> FALSE, meta |-> NewMetadata]
  /\ clock = 0
  /\ calls = 0
  /\ sortIn = <<>>
  /\ sortOut = <<>>
  /\ aggIn = <<>>
  /\ aggOut = <<>>
  /\ savePc = "idle"
  /\ saveLines = <<>>
  /\ tempFile = [exists |-> FALSE, lines |-> <<>>]
  /\ writeQueue = "resolved"
  /\ queued = 0
  /\ flushPc = "idle"
  /\ flushLines = <<>>
  /\ flushWait = 0
  /\ truncPc = "idle"

\* one public call of the table, while the call budget lasts
Call(budget) == calls < budget /\ calls' = calls + 1

Next ==
  \/ \E record \in InputRecords, id \in Ids, timestamp \in NowChoices :
       Call(MaxOps) /\ Insert(record, id, timestamp)
  \/ \E id \in Ids : Call(MaxOps) /\ Get(id)
  \/ \E id \in Ids, updates \in Patches, timestamp \in NowChoices :
       Call(MaxOps) /\ Update(id, updates, timestamp)
  \/ \E id \in Ids : Call(MaxOps) /\ Delete(id)
  \/ Call(MaxOps) /\ Flush
  \/ \E elapsed \in BOOLEAN : Call(MaxOps) /\ SaveTimerFire(elapsed)
  \/ \E field \in Fields : Call(MaxOps) /\ CreateIndex(field)
  \/ \E field \in Fields : Call(MaxOps) /\ DropIndex(field)
  \/ Call(MaxOps) /\ Load

Spec == Init /\ [][Next]_vars

\* the store alone: no index is ever created and every call reads the same
\* clock value (all calls within one millisecond)
StoreNext ==
  \/ \E record \in InputRecords, id \in Ids : Call(MaxStoreOps) /\ Insert(record, id, clock)
  \/ \E id \in Ids : Call(MaxStoreOps) /\ Get(id)
  \/ \E id \in Ids, updates \in Patches : Call(MaxStoreOps) /\ Update(id, updates, clock)
  \/ \E id \in Ids : Call(MaxStoreOps) /\ Delete(id)
  \/ Call(MaxStoreOps) /\ Flush
  \/ \E elapsed \in BOOLEAN : Call(MaxStoreOps) /\ SaveTimerFire(elapsed)
  \/ Call(MaxStoreOps) /\ Load

SpecStore == Init /\ [][StoreNext]_vars

\* ------------------------------------------------------------- properties
Reserved == {"_id", "_created", "_modified"}

\* got carries every field of the inserted record plus the three reserved keys
InsertedAsGiven(record, id, got) ==
  /\ got # Null
  /\ Reserved \subseteq DOMAIN got
  /\ got["_id"] = id
  /\ \A k \in DOMAIN record \ Reserved : k \in DOMAIN got /\ got[k] = record[k]
  /\ got["_created"] = got["_modified"]

\* C1: a get(r._id) issued right after insert(r) returns every field of r plus
\* _id, _created and _modified, with _created equal to _modified.
C1_InsertThenGet ==
  [][\A record \in InputRecords, id \in Ids :
       Insert(record, id, clock') => InsertedAsGiven(record, id, get(id).rec')]_vars

\* after is before merged with updates, _id and _created kept
UpdateMerged(id, updates, before, after) ==
  /\ after # Null
  /\ after["_id"] = id
  /\ after["_id"] = before["_id"]
  /\ after["_created"] = before["_created"]
  /\ \A k \in DOMAIN updates \ Reserved : k \in DOMAIN after /\ after[k] = updates[k]
  /\ \A k \in DOMAIN before \ (DOMAIN updates \cup Reserved) :
       k \in DOMAIN after /\ after[k] = before[k]
  /\ DOMAIN after = DOMAIN before \cup DOMAIN updates

\* C2: after update(id, patch) on a visible id, get(id) keeps _id and _created
\* (even when the patch names them), has every other patch key at the patch value
\* and every non-patched key at its prior value, and _modified has advanced.
C2_UpdateAdvancesModified ==
  [][\A id \in Ids, updates \in Patches :
       (get(id).rec # Null /\ Update(id, updates, clock')) =>
         /\ UpdateMerged(id, updates, get(id).rec, get(id).rec')
         /\ get(id).rec'["_modified"] > get(id).rec["_modified"]]_vars

\* C2 as amended: the same, with _modified set to the clock reading of the
\* update call, which is never earlier than the prior _modified.
C2_UpdateRefreshesModified ==
  [][\A id \in Ids, updates \in Patches :
       (get(id).rec # Null /\ Update(id, updates, clock')) =>
         /\ UpdateMerged(id, updates, get(id).rec, get(id).rec')
         /\ get(id).rec'["_modified"] = clock'
         /\ get(id).rec'["_modified"] >= get(id).rec["_modified"]]_vars

\* a pending update that named _id and _created left both alone, changed f and
\* carries a later _modified than _created
C2_Witness ==
  \E i \in 1..Len(pendingUpdates) :
    /\ pendingUpdates[i]["_modified"] > pendingUpdates[i]["_created"]
    /\ get(pendingUpdates[i]["_id"]).rec = pendingUpdates[i]
    /\ "f" \in DOMAIN pendingUpdates[i]
    /\ \E j \in 1..Len(logFile) :
         /\ logFile[j]["_id"] = pendingUpdates[i]["_id"]
         /\ logFile[j]["_created"] = pendingUpdates[i]["_created"]
         /\ getFieldValue(logFile[j], "f") # pendingUpdates[i]["f"]

\* C3: after delete(id) on a visible id, get(id) returns null, wherever the
\* record lived (pendingWrites, pendingUpdates, resident map, cache, log only).
C3_DeleteThenGetAbsent ==
  [][\A id \in Ids : (get(id).rec # Null /\ Delete(id)) => get(id).rec' = Null]_vars

\* a deleted id whose record is in the durable log and in no in-memory map
C3_Witness ==
  \E id \in pendingDeletes :
    /\ ~MapHas(data, id) /\ ~MapHas(pendingWrites, id) /\ ~MapHas(pendingUpdates, id)
    /\ ~CacheHas(cache, id)
    /\ logExists /\ FirstLine(logFile, id) # Null
    /\ get(id).rec = Null

\* C4: a successful delete(id) lowers the unconditional count() by exactly 1.
C4_DeleteLowersCountByOne ==
  [][\A id \in Ids : (get(id).rec # Null /\ Delete(id)) => count' = count - 1]_vars

\* query inputs
NoIndices == [field \in {} |-> 0]
QueryVals == 0..(MaxVal + 1)
EqCond(v) == [field |-> "f", ops |-> [o \in {"eq"} |-> v]]
LitCond(v) == [field |-> "f", lit |-> v]
RangeCond(a, b) == [field |-> "f", ops |-> [o \in {"gte", "lte"} |-> IF o = "gte" THEN a ELSE b]]

\* all(): the unindexed scan of the whole table
all == execute(NewQuery, NoIndices)

\* C5: for a field with an index, find({f: {$eq: v}}) returns the same id set as
\* the unindexed scan with the same predicate, for every v.
C5_IndexedEqMatchesScan ==
  hasIndex(indices, "f") =>
    \A v \in QueryVals :
      ResultIds(execute(find(indices, EqCond(v)), indices))
        = ResultIds(execute(find(NoIndices, EqCond(v)), NoIndices))

\* a <= record.f <= b
InRange(record, a, b) ==
  getFieldValue(record, "f") # Undef /\ a <= getFieldValue(record, "f")
  /\ getFieldValue(record, "f") <= b

\* C6: for a field with a sorted index, find({f: {$gte: a, $lte: b}}) returns
\* exactly the records of a full scan with a <= f <= b, for a <= b and a > b.
C6_SortedRangeMatchesScan ==
  (hasIndex(indices, "f") /\ getIndexType(indices, "f") = "sorted") =>
    \A a \in QueryVals, b \in QueryVals :
      LET results == execute(find(indices, RangeCond(a, b)), indices)
      IN /\ \A i \in 1..Len(results) : InRange(results[i], a, b)
         /\ ResultIds(results) = ResultIds(SelectSeq(all, LAMBDA r : InRange(r, a, b)))

\* what get() shows for every id
VisibleView == [id \in Ids |-> get(id).rec]

Durable ==
  /\ pendingWrites = <<>> /\ pendingUpdates = <<>> /\ pendingDeletes = {}
  /\ metaFile.exists

\* C7: once everything is flushed and a compaction has completed, loading a
\* fresh table from the durable files shows the same id -> record mapping.
C7_ReloadRoundTrip == [][(Durable /\ Load) => VisibleView' = VisibleView]_vars

\* how many results carry the id
Occurrences(results, id) == Cardinality({i \in 1..Len(results) : results[i]["_id"] = id})

\* C8: re-inserting a visible _id overwrites: get(id) returns the new value, no
\* query returns two records for the id, and count() is unchanged.
C8_ReinsertOverwrites ==
  [][\A record \in InputRecords, id \in Ids :
       (get(id).rec # Null /\ Insert(record, id, clock')) =>
         /\ get(id).rec' = insertRecord(record, id, clock')
         /\ Occurrences(all', id) <= 1
         /\ count' = count]_vars

\* C9: find(A).or(B) returns exactly the records satisfying A or satisfying B,
\* whether A's field is indexed or not.
C9_OrReturnsEither ==
  \A va \in Vals, vb \in Vals :
    ResultIds(execute(or(find(indices, LitCond(va)), LitCond(vb)), indices))
      = ResultIds(SelectSeq(all, LAMBDA r : buildCondition(LitCond(va), r)
                                            \/ buildCondition(LitCond(vb), r)))

\* sort(f, order).limit(k).execute() on a filtered result list
SortKeys == 1..MaxSortKey
SortArrays == UNION {[1..n -> {[f |-> v] : v \in SortKeys}] : n \in 0..MaxSortLen}

SortInit ==
  /\ sortIn \in {[arr |-> a, k |-> k, order |-> o] :
                   a \in SortArrays, k \in 1..MaxSortLimit, o \in {"asc", "desc"}}
  /\ sortOut = [done |-> FALSE, results |-> <<>>]
  /\ HistInit
  /\ data = <<>> /\ cache = <<>> /\ indices = NoIndices
  /\ pendingWrites = <<>> /\ pendingUpdates = <<>>
  /\ pendingDeletes = {} /\ deletedIds = {}
  /\ metadata = NewMetadata /\ saveTimer = FALSE
  /\ logFile = <<>> /\ logExists = FALSE
  /\ metaFile = [exists |-> FALSE, meta |-> NewMetadata]
  /\ clock = 0 /\ calls = 0
  /\ aggIn = <<>> /\ aggOut = <<>>
  /\ savePc = "idle" /\ saveLines = <<>>
  /\ tempFile = [exists |-> FALSE, lines |-> <<>>]
  /\ writeQueue = "resolved" /\ queued = 0
  /\ flushPc = "idle" /\ flushLines = <<>> /\ flushWait = 0 /\ truncPc = "idle"

SortExecute ==
  /\ ~sortOut.done
  /\ sortOut' = [done |-> TRUE,
                 results |-> sortSkipLimit(sortIn.arr, "f", sortIn.order, sortIn.k, 0)]
  /\ UNCHANGED <<sortIn, tableVars, diskVars, clock, calls, aggVars, histVars, saveVars, callVars>>

SpecSort == SortInit /\ [][SortExecute]_vars

\* the i-th key of the fully sorted list, by counting
KthKey(arr, i, order) ==
  CHOOSE v \in SortKeys :
    IF order = "asc"
    THEN /\ Cardinality({j \in 1..Len(arr) : arr[j]["f"] < v}) < i
         /\ i <= Cardinality({j \in 1..Len(arr) : arr[j]["f"] <= v})
    ELSE /\ Cardinality({j \in 1..Len(arr) : arr[j]["f"] > v}) < i
         /\ i <= Cardinality({j \in 1..Len(arr) : arr[j]["f"] >= v})

Min(a, b) == IF a < b THEN a ELSE b

\* C10: sort(f, dir).limit(k) returns the first k keys of the fully sorted list
\* (ascending: the k smallest, descending: the k largest), heap path included.
C10_TopKMatchesFullSort ==
  sortOut.done =>
    /\ Len(sortOut.results) = Min(sortIn.k, Len(sortIn.arr))
    /\ \A i \in 1..Len(sortOut.results) :
         sortOut.results[i]["f"] = KthKey(sortIn.arr, i, sortIn.order)

\* -------------------------------------------------------------- aggregate
\* JS numbers as aggregate() produces them: finite, Infinity or -Infinity
Num(n) == [inf |-> 0, v |-> n]
PosInfinity == [inf |-> 1, v |-> 0]
NegInfinity == [inf |-> 0 - 1, v |-> 0]
NumLess(a, b) == a.inf < b.inf \/ (a.inf = 0 /\ b.inf = 0 /\ a.v < b.v)

\* r[field] || fallback: the fallback replaces an absent property and every
\* falsy value, the number 0 included
OrElse(r, field, fallback) ==
  IF field \in DOMAIN r /\ r[field] # 0 THEN r[field] ELSE fallback

\* results.reduce((sum, r) => sum + (r[field] || 0), 0)
RECURSIVE aggSum(_, _, _)
aggSum(results, field, sum) ==
  IF results = <<>> THEN sum
  ELSE aggSum(Tail(results), field, sum + OrElse(Head(results), field, 0))

\* a faulty divisor: only the records that carry the field are counted
avgDivisor_PresentOnly(results, field) ==
  Len(SelectSeq(results, LAMBDA r : field \in DOMAIN r))

avgDivisor(results, field) == Len(results)

\* sum / results.length, kept as the fraction num/den; 0 when there are no results
aggAvg(results, field) ==
  IF Len(results) > 0
  THEN [num |-> aggSum(results, field, 0), den |-> avgDivisor(results, field)]
  ELSE [num |-> 0, den |-> 1]

\* Math.min(...results.map(r => r[field] || Infinity))
RECURSIVE aggMin(_, _, _)
aggMin(results, field, acc) ==
  IF results = <<>> THEN acc
  ELSE LET x == IF field \in DOMAIN Head(results) /\ Head(results)[field] # 0
                THEN Num(Head(results)[field]) ELSE PosInfinity
       IN aggMin(Tail(results), field, IF NumLess(x, acc) THEN x ELSE acc)

\* Math.max(...results.map(r => r[field] || -Infinity))
RECURSIVE aggMax(_, _, _)
aggMax(results, field, acc) ==
  IF results = <<>> THEN acc
  ELSE LET x == IF field \in DOMAIN Head(results) /\ Head(results)[field] # 0
                THEN Num(Head(results)[field]) ELSE NegInfinity
       IN aggMax(Tail(results), field, IF NumLess(acc, x) THEN x ELSE acc)

\* aggregate({k: {$op: field}}): the value stored under k
aggregate(results, op, field) ==
  CASE op = "sum" -> aggSum(results, field, 0)
    [] op = "avg" -> aggAvg(results, field)
    [] op = "min" -> aggMin(results, field, PosInfinity)
    [] op = "max" -> aggMax(results, field, NegInfinity)
    [] op = "count" -> Len(results)

\* filtered result lists: each record carries f (negative, zero or positive) or not
MaxAggLen == 4
MaxAggVal == 2
AggVals == (0 - MaxAggVal)..MaxAggVal
AggRecords == {[x \in {} |-> 0]} \cup {[f |-> v] : v \in AggVals}
AggArrays == UNION {[1..n -> AggRecords] : n \in 0..MaxAggLen}
AggOps == {"sum", "avg", "min", "max", "count"}

AggInit ==
  /\ aggIn \in {[arr |-> a, op |-> o] : a \in AggArrays, o \in AggOps}
  /\ aggOut = [done |-> FALSE, value |-> 0]
  /\ HistInit
  /\ sortIn = <<>> /\ sortOut = <<>>
  /\ data = <<>> /\ cache = <<>> /\ indices = NoIndices
  /\ pendingWrites = <<>> /\ pendingUpdates = <<>>
  /\ pendingDeletes = {} /\ deletedIds = {}
  /\ metadata = NewMetadata /\ saveTimer = FALSE
  /\ logFile = <<>> /\ logExists = FALSE
  /\ metaFile = [exists |-> FALSE, meta |-> NewMetadata]
  /\ clock = 0 /\ calls = 0
  /\ savePc = "idle" /\ saveLines = <<>>
  /\ tempFile = [exists |-> FALSE, lines |-> <<>>]
  /\ writeQueue = "resolved" /\ queued = 0
  /\ flushPc = "idle" /\ flushLines = <<>> /\ flushWait = 0 /\ truncPc = "idle"

AggExecute ==
  /\ ~aggOut.done
  /\ aggOut' = [done |-> TRUE, value |-> aggregate(aggIn.arr, aggIn.op, "f")]
  /\ UNCHANGED <<aggIn, tableVars, diskVars, clock, calls, sortVars, histVars, saveVars, callVars>>

SpecAgg == AggInit /\ [][AggExecute]_vars

\* the values of f present on the records, and their sum counted value by value
PresentVals(arr) == {arr[i]["f"] : i \in {j \in 1..Len(arr) : "f" \in DOMAIN arr[j]}}
RECURSIVE SumFrom(_, _)
SumFrom(arr, v) ==
  IF v > MaxAggVal THEN 0
  ELSE v * Cardinality({i \in 1..Len(arr) : "f" \in DOMAIN arr[i] /\ arr[i]["f"] = v})
       + SumFrom(arr, v + 1)

SumByValue(arr) == SumFrom(arr, 0 - MaxAggVal)

C12_MinMaxOverPresent ==
  (aggOut.done /\ PresentVals(aggIn.arr) # {}) =>
    /\ aggIn.op = "min" =>
         /\ aggOut.value.inf = 0
         /\ aggOut.value.v \in PresentVals(aggIn.arr)
         /\ \A v \in PresentVals(aggIn.arr) : aggOut.value.v <= v
    /\ aggIn.op = "max" =>
         /\ aggOut.value.inf = 0
         /\ aggOut.value.v \in PresentVals(aggIn.arr)
         /\ \A v \in PresentVals(aggIn.arr) : aggOut.value.v >= v

\* ------------------------------------------------- absent ids (update, delete)
\* what update(id, updates) and delete(id) return
updateReturn(id, updates, timestamp) ==
  IF get(id).rec = Null THEN Null ELSE updateRecord(get(id).rec, updates, id, timestamp)
deleteReturn(id) == get(id).rec # Null

MaxSaveOps == 4

NoTemp == [exists |-> FALSE, lines |-> <<>>]

\* the caller awaits its flush() or truncate() before the next call
CallerIdle == flushPc = "idle" /\ truncPc = "idle"

\* save() is entered: flushPendingWrites() returns at once on an empty buffer,
\* otherwise it maps the buffer to lines and awaits appendFile
startSave ==
  IF pendingWrites = <<>>
  THEN savePc' = "compact" /\ saveLines' = <<>>
  ELSE savePc' = "append" /\ saveLines' = pendingWrites

\* the promise of the save in flight settles: the next save chained on the
\* queue is entered, or after a rejection no chained save is ever entered;
\* a flush() awaiting the queue counts the save off or is rejected with it
saveSettles(fulfilled) ==
  /\ IF fulfilled
     THEN /\ writeQueue' = writeQueue
          /\ IF queued > 0
             THEN queued' = queued - 1 /\ startSave
             ELSE queued' = queued /\ savePc' = "idle" /\ saveLines' = <<>>
     ELSE /\ writeQueue' = "rejected"
          /\ queued' = 0 /\ savePc' = "idle" /\ saveLines' = <<>>
  /\ IF flushPc = "await" /\ flushWait > 0
     THEN IF fulfilled
          THEN flushWait' = flushWait - 1 /\ flushPc' = flushPc
          ELSE flushWait' = 0 /\ flushPc' = "rejected"
     ELSE UNCHANGED <<flushPc, flushWait>>

\* the debounce timer expires: writeQueue = writeQueue.then(() => this.save());
\* then() on a rejected promise never calls back
TimerExpire ==
  /\ saveTimer
  /\ saveTimer' = FALSE
  /\ IF writeQueue = "rejected" THEN UNCHANGED <<savePc, saveLines, queued>>
     ELSE IF savePc = "idle" THEN startSave /\ UNCHANGED queued
     ELSE queued' = queued + 1 /\ UNCHANGED <<savePc, saveLines>>
  /\ UNCHANGED <<data, cache, indices, pendingWrites, pendingUpdates, pendingDeletes,
                 deletedIds, metadata, diskVars, clock, calls, sortVars, aggVars, histVars,
                 tempFile, writeQueue, callVars>>

\* save(): appendFile has written the lines; the records now in the buffer go
\* to the resident map and the buffer is emptied
SaveAppendDone ==
  /\ savePc = "append"
  /\ logFile' = logFile \o saveLines
  /\ logExists' = TRUE
  /\ data' = MapSetAll(data, pendingWrites)
  /\ pendingWrites' = <<>>
  /\ savePc' = "compact"
  /\ saveLines' = <<>>
  /\ UNCHANGED <<cache, indices, pendingUpdates, pendingDeletes, deletedIds, metadata,
                 saveTimer, metaFile, clock, calls, sortVars, aggVars, histVars, tempFile,
                 writeQueue, queued, callVars>>

\* save(): appendFile failed; flushPendingWrites() swallows the error and
\* calls queueSave()
SaveAppendFail ==
  /\ savePc = "append"
  /\ saveTimer' = queueSave
  /\ savePc' = "compact"
  /\ saveLines' = <<>>
  /\ UNCHANGED <<data, cache, indices, pendingWrites, pendingUpdates, pendingDeletes,
                 deletedIds, metadata, diskVars, clock, calls, sortVars, aggVars, histVars,
                 tempFile, writeQueue, queued, callVars>>

saveReturnsEarly ==
  ~needsCompaction(FALSE) /\ Len(pendingUpdates) = 0 /\ pendingDeletes = {}

\* save() after flushPendingWrites(): it returns when nothing is to compact,
\* otherwise the log pass and the resident pass fill the temporary file
SaveCompact ==
  /\ savePc = "compact"
  /\ IF saveReturnsEarly
     THEN /\ saveSettles(TRUE)
          /\ UNCHANGED tempFile
     ELSE /\ tempFile' = [exists |-> TRUE, lines |-> compactedLog(logFile, logExists, data)]
          /\ savePc' = "swap"
          /\ UNCHANGED <<saveLines, writeQueue, queued, flushPc, flushWait>>
  /\ UNCHANGED <<tableVars, diskVars, clock, calls, sortVars, aggVars, histVars, flushLines, truncPc>>

\* save(): the stream is closed and the temporary file renamed over the log;
\* then pending updates and deletes are merged into the resident map and
\* cleared, and the metadata is written
SaveRename ==
  /\ savePc = "swap"
  /\ tempFile.exists
  /\ logFile' = tempFile.lines
  /\ logExists' = TRUE
  /\ tempFile' = NoTemp
  /\ data' = mergedData(data)
  /\ pendingUpdates' = <<>>
  /\ pendingDeletes' = {}
  /\ deletedIds' = {}
  /\ metadata' = saveMetadata(data', indices)
  /\ metaFile' = [exists |-> TRUE, meta |-> metadata']
  /\ saveSettles(TRUE)
  /\ UNCHANGED <<cache, indices, pendingWrites, saveTimer, clock, calls, sortVars,
                 aggVars, histVars, flushLines, truncPc>>

\* a catch block that rethrows and leaves the temporary file behind
SaveFail_TempLeft ==
  /\ savePc = "swap" \/ (savePc = "compact" /\ ~saveReturnsEarly)
  /\ tempFile' = [exists |-> TRUE, lines |-> tempFile.lines]
  /\ saveSettles(FALSE)
  /\ UNCHANGED <<tableVars, diskVars, clock, calls, sortVars, aggVars, histVars, flushLines, truncPc>>

\* save(): an I/O error before the rename took effect (reading the log, closing
\* the stream, renaming): the temporary file is unlinked and the error rethrown
SaveFail ==
  /\ savePc = "swap" \/ (savePc = "compact" /\ ~saveReturnsEarly)
  /\ tempFile' = NoTemp
  /\ saveSettles(FALSE)
  /\ UNCHANGED <<tableVars, diskVars, clock, calls, sortVars, aggVars, histVars, flushLines, truncPc>>

\* flush() is called: flushPendingWrites(), then await this.writeQueue
awaitWriteQueue ==
  IF writeQueue = "rejected"
  THEN flushPc' = "rejected" /\ flushWait' = 0
  ELSE /\ flushPc' = "await"
       /\ flushWait' = (IF savePc = "idle" THEN 0 ELSE 1) + queued

FlushBegin ==
  /\ CallerIdle
  /\ IF pendingWrites = <<>>
     THEN flushLines' = <<>> /\ awaitWriteQueue
     ELSE flushLines' = pendingWrites /\ flushPc' = "append" /\ UNCHANGED flushWait
  /\ UNCHANGED <<tableVars, diskVars, clock, sortVars, aggVars, histVars, saveVars, truncPc>>

\* flush(): appendFile has written the lines
FlushAppendDone ==
  /\ flushPc = "append"
  /\ logFile' = logFile \o flushLines
  /\ logExists' = TRUE
  /\ data' = MapSetAll(data, pendingWrites)
  /\ pendingWrites' = <<>>
  /\ awaitWriteQueue
  /\ UNCHANGED <<cache, indices, pendingUpdates, pendingDeletes, deletedIds, metadata,
                 saveTimer, metaFile, clock, calls, sortVars, aggVars, histVars, saveVars,
                 flushLines, truncPc>>

\* flush(): appendFile failed; the error is swallowed and a save is queued
FlushAppendFail ==
  /\ flushPc = "append"
  /\ saveTimer' = queueSave
  /\ flushLines' = <<>>
  /\ awaitWriteQueue
  /\ UNCHANGED <<data, cache, indices, pendingWrites, pendingUpdates, pendingDeletes,
                 deletedIds, metadata, diskVars, clock, calls, sortVars, aggVars, histVars,
                 saveVars, truncPc>>

\* flush() resolves: every save it awaited has been fulfilled
FlushResolve ==
  /\ flushPc = "await" /\ flushWait = 0
  /\ flushPc' = "idle"
  /\ flushLines' = <<>>
  /\ UNCHANGED <<tableVars, diskVars, clock, calls, sortVars, aggVars, histVars, saveVars,
                 flushWait, truncPc>>

\* flush() rejects with the error of the save queue
FlushReject ==
  /\ flushPc = "rejected"
  /\ flushPc' = "idle"
  /\ flushLines' = <<>>
  /\ UNCHANGED <<tableVars, diskVars, clock, calls, sortVars, aggVars, histVars, saveVars,
                 flushWait, truncPc>>

\* truncate() up to its first await: the timer and all in-memory state cleared
TruncateBegin ==
  /\ CallerIdle
  /\ saveTimer' = FALSE
  /\ data' = <<>>
  /\ cache' = <<>>
  /\ indices' = NoIndices
  /\ deletedIds' = {}
  /\ pendingWrites' = <<>>
  /\ pendingUpdates' = <<>>
  /\ pendingDeletes' = {}
  /\ metadata' = [metadata EXCEPT !.recordCount = 0]
  /\ truncPc' = "unlink"
  /\ UNCHANGED <<diskVars, clock, sortVars, aggVars, histVars, saveVars, flushPc, flushLines,
                 flushWait>>

\* truncate(): the log is unlinked; saveMetadata() fills in the metadata and
\* writes the side file
TruncateUnlinked ==
  /\ truncPc = "unlink"
  /\ logFile' = <<>>
  /\ logExists' = FALSE
  /\ metadata' = saveMetadata(data, indices)
  /\ metaFile' = [exists |-> TRUE, meta |-> metadata']
  /\ truncPc' = "meta"
  /\ UNCHANGED <<data, cache, indices, pendingWrites, pendingUpdates, pendingDeletes,
                 deletedIds, saveTimer, clock, calls, sortVars, aggVars, histVars, saveVars,
                 flushPc, flushLines, flushWait>>

\* truncate() resolves
TruncateDone ==
  /\ truncPc = "meta"
  /\ truncPc' = "idle"
  /\ UNCHANGED <<tableVars, diskVars, clock, calls, sortVars, aggVars, histVars, saveVars,
                 flushPc, flushLines, flushWait>>

\* drop(): the timer cleared, the three files unlinked, the in-memory state cleared
Drop ==
  /\ CallerIdle
  /\ saveTimer' = FALSE
  /\ logFile' = <<>>
  /\ logExists' = FALSE
  /\ metaFile' = [exists |-> FALSE, meta |-> NewMetadata]
  /\ tempFile' = NoTemp
  /\ data' = <<>>
  /\ cache' = <<>>
  /\ deletedIds' = {}
  /\ pendingWrites' = <<>>
  /\ pendingUpdates' = <<>>
  /\ pendingDeletes' = {}
  /\ UNCHANGED <<indices, metadata, clock, sortVars, aggVars, histVars, savePc, saveLines,
                 writeQueue, queued, callVars>>

\* the caller's calls, one at a time, interleaved with the timer, the steps of
\* the save in flight and the I/O failures
SaveNext ==
  \/ \E record \in InputRecords, id \in Ids :
       CallerIdle /\ Call(MaxSaveOps) /\ Insert(record, id, clock)
  \/ \E id \in Ids, updates \in Patches :
       CallerIdle /\ Call(MaxSaveOps) /\ Update(id, updates, clock)
  \/ \E id \in Ids : CallerIdle /\ Call(MaxSaveOps) /\ Delete(id)
  \/ \E field \in Fields : CallerIdle /\ Call(MaxSaveOps) /\ CreateIndex(field)
  \/ Call(MaxSaveOps) /\ FlushBegin
  \/ Call(MaxSaveOps) /\ TruncateBegin
  \/ Call(MaxSaveOps) /\ Drop
  \/ TimerExpire
  \/ SaveAppendDone
  \/ SaveAppendFail
  \/ SaveCompact
  \/ SaveRename
  \/ SaveFail
  \/ FlushAppendDone
  \/ FlushAppendFail
  \/ FlushResolve
  \/ FlushReject
  \/ TruncateUnlinked
  \/ TruncateDone

SpecSave == Init /\ [][SaveNext]_vars

\* autoSave on and no I/O failure: records are inserted under new ids, updated,
\* deleted and flushed; the timer fires and every I/O the table awaits completes
MaxPersistOps == 4

Background ==
  \/ TimerExpire
  \/ SaveAppendDone
  \/ SaveCompact
  \/ SaveRename
  \/ FlushAppendDone
  \/ FlushResolve

PersistNext ==
  \/ \E record \in InputRecords, id \in Ids \ UsedIds :
       CallerIdle /\ Call(MaxPersistOps) /\ Insert(record, id, clock)
  \/ \E id \in Ids, updates \in Patches :
       CallerIdle /\ Call(MaxPersistOps) /\ Update(id, updates, clock)
  \/ \E id \in Ids : CallerIdle /\ Call(MaxPersistOps) /\ Delete(id)
  \/ Call(MaxPersistOps) /\ FlushBegin
  \/ TimerExpire
  \/ SaveAppendDone
  \/ SaveCompact
  \/ SaveRename
  \/ FlushAppendDone
  \/ FlushResolve

SpecPersist == Init /\ [][PersistNext]_vars /\ WF_vars(Background)

\* ----------------------------------------------------- durability properties
\* id has a line in the durable log
InLog(id) == logExists /\ FirstLine(logFile, id) # Null

\* C14: when flush() resolves after a successful append, every record that was
\* in pendingWrites when flush() was called (and is still visible) is a line of
\* the durable log and has moved from pendingWrites into the resident map.
C14_FlushMakesDurable ==
  [][FlushResolve =>
       \A i \in 1..Len(flushLines) :
         LET id == flushLines[i]["_id"]
         IN get(id).rec # Null =>
              /\ InLog(id)
              /\ MapHas(data, id)
              /\ ~MapHas(pendingWrites, id)]_vars

\* every line of the log that carries id shows the record get(id) returns, and
\* an id that is not visible has no line
Reflected(id) ==
  \A i \in 1..Len(logFile) :
    (logExists /\ logFile[i]["_id"] = id) => logFile[i] = get(id).rec

\* C13: with autoSave on, the timer firing and no I/O failure, every update and
\* delete is eventually reflected in the durable log (the updated value replaces
\* the old line, the line of a deleted id is gone), whatever the interleaving
\* with a save that is queued or in flight.
C13_EventuallyPersisted == <>[](\A id \in Ids : Reflected(id))

\* a step of the save in flight
SaveStep == SaveAppendDone \/ SaveAppendFail \/ SaveCompact \/ SaveRename \/ SaveFail

\* the log at the durable path is replaced only as a whole
LogSwappedWhole ==
  [][SaveStep =>
       \/ UNCHANGED <<logFile, logExists>>
       \/ savePc = "append" /\ logFile' = logFile \o saveLines
       \/ savePc = "swap" /\ tempFile.exists /\ logFile' = tempFile.lines]_vars

\* C15: at every step of save() the file at the durable path is the complete
\* log before or the complete log after the compaction, and no step loses a
\* record that was durable and not deleted.
C15_CompactionCrashSafe ==
  [][SaveStep =>
       /\ \/ UNCHANGED <<logFile, logExists>>
          \/ savePc = "append" /\ logFile' = logFile \o saveLines
          \/ savePc = "swap" /\ tempFile.exists /\ logFile' = tempFile.lines
       /\ \A id \in Ids : (InLog(id) /\ ~Deleted(id)) => InLog(id)']_vars

\* what a failed save must leave alone
SaveUntouched == UNCHANGED <<logFile, logExists, pendingUpdates, pendingDeletes, data>>

C17_FailedSaveIsRetried == [][TimerExpire => savePc' # "idle"]_vars

\* the table holds nothing, in memory or on disk, and its metadata says so
TableEmpty ==
  /\ data = <<>>
  /\ cache = <<>>
  /\ pendingWrites = <<>>
  /\ pendingUpdates = <<>>
  /\ pendingDeletes = {}
  /\ deletedIds = {}
  /\ DOMAIN indices = {}
  /\ count = 0
  /\ \A id \in Ids : get(id).rec = Null
  /\ ~logExists
  /\ metaFile.exists
  /\ metaFile.meta.recordCount = 0
  /\ metadata.recordCount = 0

\* C19: when truncate() resolves the table is empty: count() is 0, get(id) is
\* null for every id, every pending collection and the cache are empty, there
\* are no indices, the log file is absent and the metadata file records a
\* recordCount of 0.
C19_TruncateEmpties == [][TruncateDone => TableEmpty']_vars

\* an index that holds no id
IndexIsEmpty(index) ==
  IF index.type = "hash" THEN index.map = HashEmpty
  ELSE index.values = <<>> /\ DOMAIN index.map = {}

\* the table's files are gone and nothing of it is left in memory
Dropped ==
  /\ ~logExists
  /\ ~metaFile.exists
  /\ ~tempFile.exists
  /\ data = <<>>
  /\ cache = <<>>
  /\ pendingWrites = <<>>
  /\ pendingUpdates = <<>>
  /\ pendingDeletes = {}
  /\ deletedIds = {}
  /\ \A field \in DOMAIN indices : IndexIsEmpty(indices[field])

\* C20: when drop() resolves the log file, the metadata file and the temporary
\* file do not exist and the resident map, the cache, pendingWrites,
\* pendingUpdates, pendingDeletes, the tombstones and the contents of every
\* index are empty.
C20_DropClearsAll == [][Drop => Dropped']_vars

\* ------------------------------------------------------------------ index set
\* C21: when the save scheduled by createIndex(field) or dropIndex(field) has
\* completed, the persisted metadata lists exactly the current indexed fields
\* (what load() will rebuild), also when no update or delete is pending.
C21_IndexSetDurable ==
  [][(\E elapsed \in BOOLEAN : SaveTimerFire(elapsed)) =>
       loadMetadata'.indices = DOMAIN indices']_vars

\* ------------------------------------------------------------------ rebuild
\* a faulty createIndex: while a save is scheduled the index is left empty
createIndexOn_Deferred(idx, field) ==
  IF saveTimer THEN IndexManager_createIndex(idx, field, <<>>)
  ELSE LET created == IndexManager_createIndex(idx, field, data)
       IN IF Len(data) < metadata.recordCount /\ logExists
          THEN buildIndicesFromFile(created, logFile)
          ELSE created

\* Table.createIndex(field) on the index set idx
createIndexOn(idx, field) ==
  LET created == IndexManager_createIndex(idx, field, data)
  IN IF Len(data) < metadata.recordCount /\ logExists
     THEN buildIndicesFromFile(created, logFile)
     ELSE created

\* optimize(), for one indexed field: indexManager.dropIndex(field) followed by
\* table.createIndex(field); at most two of them in a row, on the same field
Rebuild(field) ==
  /\ rebuilds < 2
  /\ field \in DOMAIN indices
  /\ rebuilds = 1 => field \in DOMAIN firstRebuild
  /\ indices' = createIndexOn(IndexManager_dropIndex(indices, field), field)
  /\ saveTimer' = queueSave
  /\ rebuilds' = rebuilds + 1
  /\ firstRebuild' = IF rebuilds = 0 THEN [k \in {field} |-> indices'[field]]
                     ELSE firstRebuild
  /\ UNCHANGED <<data, cache, pendingWrites, pendingUpdates, pendingDeletes, deletedIds,
                 metadata, diskVars, clock, calls, sortVars, aggVars, saveVars, callVars,
                 queueVars>>

MaxRebuildOps == 6

\* any calls on the table, then rebuilds in a row with nothing in between
RebuildNext ==
  \/ \E record \in InputRecords, id \in Ids :
       rebuilds = 0 /\ Call(MaxRebuildOps) /\ Insert(record, id, clock)
  \/ \E id \in Ids, updates \in Patches :
       rebuilds = 0 /\ Call(MaxRebuildOps) /\ Update(id, updates, clock)
  \/ \E id \in Ids : rebuilds = 0 /\ Call(MaxRebuildOps) /\ Delete(id)
  \/ rebuilds = 0 /\ Call(MaxRebuildOps) /\ Flush
  \/ rebuilds = 0 /\ Call(MaxRebuildOps) /\ SaveTimerFire(FALSE)
  \/ \E field \in Fields : rebuilds = 0 /\ Call(MaxRebuildOps) /\ CreateIndex(field)
  \/ rebuilds = 0 /\ Call(MaxRebuildOps) /\ Load
  \/ \E field \in Fields : Rebuild(field)

SpecRebuild == Init /\ [][RebuildNext]_vars

\* the ids an index gives for every equality and every range query
ExactAnswers(idx, field) == [v \in Vals |-> Range(findByIndex(idx, field, v))]

RangeAnswers(idx, field) ==
  [b \in (Vals \cup {Undef}) \X (Vals \cup {Undef}) \X BOOLEAN \X BOOLEAN |->
     IF idx[field].type = "sorted"
     THEN Range(findByRange(idx, field, b[1], b[2], b[3], b[4]))
     ELSE {}]

queryCount(q, idx) ==
  LET candidateSet == getIndexCandidateSet(q, idx)
  IN IF ~candidateSet.isNull /\ q.nonIndexableConditions = <<>>
     THEN Len(SelectSeq(candidateSet.ids, LAMBDA id : id \notin pendingDeletes))
     ELSE Len(execute(q, idx))

MaxSkip == 1
MaxLimit == 2

\* the predicates on f, and the skip/limit settings (limit 0: none given)
CountConds ==
  {EqCond(v) : v \in QueryVals} \cup {LitCond(v) : v \in QueryVals}
  \cup {RangeCond(a, b) : <<a, b>> \in QueryVals \X QueryVals}

Paged(q, s, l) == limit(skip(q, s), l)

\* C23: for every predicate and every skip/limit setting count() is the same
\* number on the index path as on the path without an index, and that number
\* is the size of the filtered result.
C23_CountSameOnBothPaths ==
  hasIndex(indices, "f") =>
    \A c \in CountConds, s \in 0..MaxSkip, l \in 0..MaxLimit :
      /\ queryCount(Paged(find(indices, c), s, l), indices)
           = queryCount(Paged(find(NoIndices, c), s, l), NoIndices)
      /\ queryCount(Paged(find(NoIndices, c), s, l), NoIndices)
           = Len(execute(Paged(find(NoIndices, c), s, l), NoIndices))

\* ------------------------------------------------------------------ many
\* the cache after execute(): only executeWithIndex reads through it
executeCache(q, idx) ==
  LET candidateSet == getIndexCandidateSet(q, idx)
  IN IF ~candidateSet.isNull /\ candidateSet.ids # <<>>
     THEN executeWithIndex(candidateSet.ids, cache, <<>>).cache
     ELSE cache

\* the loop of updateMany() over the records of the query; st holds
\* pendingUpdates, the cache and the indices
RECURSIVE updateEach(_, _, _, _)
updateEach(records, updates, timestamp, st) ==
  IF records = <<>> THEN st
  ELSE LET record == Head(records)
           id == record["_id"]
           oldRecord == updateOldRecord(id, record)
           updatedRecord == updateRecord(record, updates, id, timestamp)
       IN updateEach(Tail(records), updates, timestamp,
            [pendingUpdates |-> MapSet(st.pendingUpdates, id, updatedRecord),
             cache |-> CacheSet(st.cache, id, updatedRecord),
             indices |-> updateIndices(st.indices, id, oldRecord, updatedRecord)])

UpdateMany(c, updates, timestamp) ==
  LET query == find(indices, c)
      records == execute(query, indices)
      st == updateEach(records, updates, timestamp,
                       [pendingUpdates |-> pendingUpdates,
                        cache |-> executeCache(query, indices),
                        indices |-> indices])
  IN /\ pendingUpdates' = st.pendingUpdates
     /\ cache' = st.cache
     /\ indices' = st.indices
     /\ saveTimer' = IF Len(records) > 0 THEN queueSave ELSE saveTimer
     /\ clock' = timestamp
     /\ UNCHANGED <<data, pendingWrites, pendingDeletes, deletedIds, metadata, diskVars,
                    otherVars>>

\* the loop of deleteMany(); st holds pendingDeletes, the cache and the indices
RECURSIVE deleteEach(_, _)
deleteEach(records, st) ==
  IF records = <<>> THEN st
  ELSE LET record == Head(records)
           id == record["_id"]
       IN deleteEach(Tail(records),
            [pendingDeletes |-> st.pendingDeletes \cup {id},
             cache |-> CacheDelete(st.cache, id),
             indices |-> removeFromIndices(st.indices, id, record)])

DeleteMany(c) ==
  LET query == find(indices, c)
      records == execute(query, indices)
      st == deleteEach(records, [pendingDeletes |-> pendingDeletes,
                                 cache |-> executeCache(query, indices),
                                 indices |-> indices])
  IN /\ pendingDeletes' = st.pendingDeletes
     /\ cache' = st.cache
     /\ indices' = st.indices
     /\ saveTimer' = IF Len(records) > 0 THEN queueSave ELSE saveTimer
     /\ UNCHANGED <<data, pendingWrites, pendingUpdates, deletedIds, metadata, diskVars,
                    clock, otherVars>>

MaxManyOps == 4

\* predicates of updateMany / deleteMany: f = v, and every record that has f
ManyConds == {LitCond(v) : v \in Vals} \cup {RangeCond(0, MaxVal)}

ManyNext ==
  \/ \E record \in InputRecords, id \in Ids : Call(MaxManyOps) /\ Insert(record, id, clock)
  \/ \E id \in Ids, updates \in Patches : Call(MaxManyOps) /\ Update(id, updates, clock)
  \/ \E id \in Ids : Call(MaxManyOps) /\ Delete(id)
  \/ Call(MaxManyOps) /\ Flush
  \/ Call(MaxManyOps) /\ SaveTimerFire(FALSE)
  \/ \E field \in Fields : Call(MaxManyOps) /\ CreateIndex(field)
  \/ \E c \in ManyConds, updates \in Patches : Call(MaxManyOps) /\ UpdateMany(c, updates, clock)
  \/ \E c \in ManyConds : Call(MaxManyOps) /\ DeleteMany(c)

SpecMany == Init /\ [][ManyNext]_vars

\* the ids find(c).execute() returns
Matched(c) == ResultIds(execute(find(indices, c), indices))

\* C24: updateMany(pred, patch) leaves every record that find(pred).execute()
\* returns as a single update(id, patch) would, deleteMany(pred) leaves it as
\* delete(id) would, and every other record keeps its visible value.
C24_ManyAsSingle ==
  [][/\ \A c \in ManyConds, updates \in Patches :
          UpdateMany(c, updates, clock) =>
            \A id \in Ids :
              get(id).rec' = IF id \in Matched(c) /\ get(id).rec # Null
                             THEN updateRecord(get(id).rec, updates, id, clock)
                             ELSE get(id).rec
     /\ \A c \in ManyConds :
          DeleteMany(c) =>
            \A id \in Ids :
              get(id).rec' = IF id \in Matched(c) THEN Null ELSE get(id).rec]_vars

\* ------------------------------------------------------------------ reads
\* every record of the result list is what get() returns for its id
AsGet(results) == \A i \in 1..Len(results) : results[i] = get(results[i]["_id"]).rec

\* C25: every record returned by a query, on the resident scan, the streamed
\* file scan or the index path, equals what get(id) returns at that moment; a
\* record updated while still in pendingWrites comes with its pendingUpdates
\* value.
C25_PendingUpdatesAuthoritative ==
  /\ AsGet(all)
  /\ \A c \in CountConds :
       /\ AsGet(execute(find(NoIndices, c), NoIndices))
       /\ hasIndex(indices, "f") => AsGet(execute(find(indices, c), indices))

\* ------------------------------------------------------------------ currency
MaxCurrencyOps == 5

\* nothing is pending: an index created now is built from every visible record
Settled == pendingWrites = <<>> /\ pendingUpdates = <<>> /\ pendingDeletes = {}

\* the index is created once, on a settled table, and from then on kept by the
\* table's insert, update and delete alone
CurrencyNext ==
  \/ \E field \in Fields :
       Settled /\ ~hasIndex(indices, field) /\ Call(MaxCurrencyOps) /\ CreateIndex(field)
  \/ \E record \in InputRecords, id \in Ids :
       Call(MaxCurrencyOps) /\ Insert(record, id, clock)
  \/ \E id \in Ids, updates \in Patches : Call(MaxCurrencyOps) /\ Update(id, updates, clock)
  \/ \E id \in Ids : Call(MaxCurrencyOps) /\ Delete(id)
  \/ Call(MaxCurrencyOps) /\ Flush
  \/ Call(MaxCurrencyOps) /\ SaveTimerFire(FALSE)

SpecCurrency == Init /\ [][CurrencyNext]_vars

\* the visible ids whose current value of f is v, and those with a <= f <= b
CurrentIds(v) == {id \in Ids : get(id).rec # Null /\ getFieldValue(get(id).rec, "f") = v}

CurrentIdsInRange(a, b) == {id \in Ids : get(id).rec # Null /\ InRange(get(id).rec, a, b)}

\* C26: after any sequence of insert, re-insert, update and delete, for an
\* indexed field findByIndex(field, v) returns exactly the visible ids whose
\* current value is v, and findByRange on a sorted index exactly those in the
\* range; no id stays filed under a value it no longer has.
C26_IndexCurrent ==
  hasIndex(indices, "f") =>
    /\ \A v \in Vals : Range(findByIndex(indices, "f", v)) = CurrentIds(v)
    /\ getIndexType(indices, "f") = "sorted" =>
         \A a \in Vals, b \in Vals :
           Range(findByRange(indices, "f", a, b, TRUE, TRUE)) = CurrentIdsInRange(a, b)

\* ------------------------------------------------------------------ save queue
\* The debounce timer and the promise chain of queueSave() in detail. A call of
\* update, delete, updateMany, deleteMany, createIndex or dropIndex enters here
\* through its queueSave(); drop() and truncate() through their clearTimeout.
MaxTimers == 4
MaxChain == 3

\* clearTimeout(handle)
clearTimeout(live, handle) == live \ {handle}

\* a faulty queueSave: the previous timeout is not cleared
QueueSave_NoClear ==
  /\ AutoSave
  /\ timersSet < MaxTimers
  /\ timersSet' = timersSet + 1
  /\ timerHandle' = timersSet + 1
  /\ timeouts' = timeouts \cup {timersSet + 1}
  /\ saveTimer' = queueSave
  /\ UNCHANGED <<data, cache, indices, pendingWrites, pendingUpdates, pendingDeletes,
                 deletedIds, metadata, diskVars, clock, calls, sortVars, aggVars, saveVars,
                 callVars, rebuilds, firstRebuild, promises, running, cancelled>>

\* queueSave(): clearTimeout(this.saveTimer); this.saveTimer = setTimeout(...)
QueueSave ==
  /\ AutoSave
  /\ timersSet < MaxTimers
  /\ timersSet' = timersSet + 1
  /\ timerHandle' = timersSet + 1
  /\ timeouts' = clearTimeout(timeouts, timerHandle) \cup {timersSet + 1}
  /\ saveTimer' = queueSave
  /\ UNCHANGED <<data, cache, indices, pendingWrites, pendingUpdates, pendingDeletes,
                 deletedIds, metadata, diskVars, clock, calls, sortVars, aggVars, saveVars,
                 callVars, rebuilds, firstRebuild, promises, running, cancelled>>

\* promise.then(callback): the new promise; chained on a rejected promise it is
\* rejected and the callback never runs
then(chain) ==
  Append(chain, IF chain # <<>> /\ chain[Len(chain)] = "rejected" THEN "rejected"
                ELSE "pending")

\* a faulty timer callback: save() is called at once, not chained on the queue
TimerFires_Unchained(h) ==
  /\ h \in timeouts
  /\ Len(promises) < MaxChain
  /\ timeouts' = timeouts \ {h}
  /\ saveTimer' = (timeouts' # {})
  /\ promises' = then(promises)
  /\ running' = running \cup {Len(promises) + 1}
  /\ UNCHANGED <<data, cache, indices, pendingWrites, pendingUpdates, pendingDeletes,
                 deletedIds, metadata, diskVars, clock, calls, sortVars, aggVars, saveVars,
                 callVars, rebuilds, firstRebuild, timerHandle, timersSet, cancelled>>

\* the timeout h expires: writeQueue = writeQueue.then(() => this.save())
TimerFires(h) ==
  /\ h \in timeouts
  /\ Len(promises) < MaxChain
  /\ timeouts' = timeouts \ {h}
  /\ saveTimer' = (timeouts' # {})
  /\ promises' = then(promises)
  /\ UNCHANGED <<data, cache, indices, pendingWrites, pendingUpdates, pendingDeletes,
                 deletedIds, metadata, diskVars, clock, calls, sortVars, aggVars, saveVars,
                 callVars, rebuilds, firstRebuild, timerHandle, timersSet, running,
                 cancelled>>

\* the callback of the n-th chained save runs: the promise before it is fulfilled
SaveStarts(n) ==
  /\ n \in 1..Len(promises)
  /\ promises[n] = "pending"
  /\ n \notin running
  /\ IF n = 1 THEN TRUE ELSE promises[n - 1] = "fulfilled"
  /\ running' = running \cup {n}
  /\ UNCHANGED <<tableVars, diskVars, clock, calls, sortVars, aggVars, saveVars, callVars,
                 rebuilds, firstRebuild, timeouts, timerHandle, timersSet, promises,
                 cancelled>>

\* the n-th save returns or throws: its promise settles, and a rejection passes
\* down the chain to the saves that have not started
SaveSettles(n, fulfilled) ==
  /\ n \in running
  /\ running' = running \ {n}
  /\ promises' = [i \in 1..Len(promises) |->
                    IF i = n THEN (IF fulfilled THEN "fulfilled" ELSE "rejected")
                    ELSE IF i > n /\ ~fulfilled /\ i \notin running /\ promises[i] = "pending"
                    THEN "rejected"
                    ELSE promises[i]]
  /\ UNCHANGED <<tableVars, diskVars, clock, calls, sortVars, aggVars, saveVars, callVars,
                 rebuilds, firstRebuild, timeouts, timerHandle, timersSet, cancelled>>

\* a drop() or truncate() that leaves the timeout running
CancelTimer_Forgotten ==
  /\ cancelled' = cancelled \cup timeouts
  /\ UNCHANGED <<tableVars, diskVars, clock, calls, sortVars, aggVars, saveVars, callVars,
                 rebuilds, firstRebuild, timeouts, timerHandle, timersSet, promises,
                 running>>

\* drop() / truncate(): clearTimeout(this.saveTimer), their first statement
CancelTimer ==
  /\ cancelled' = cancelled \cup timeouts
  /\ timeouts' = clearTimeout(timeouts, timerHandle)
  /\ saveTimer' = (timeouts' # {})
  /\ UNCHANGED <<data, cache, indices, pendingWrites, pendingUpdates, pendingDeletes,
                 deletedIds, metadata, diskVars, clock, calls, sortVars, aggVars, saveVars,
                 callVars, rebuilds, firstRebuild, timerHandle, timersSet, promises,
                 running>>

QueueNext ==
  \/ QueueSave
  \/ \E h \in 1..MaxTimers : TimerFires(h)
  \/ \E n \in 1..MaxChain : SaveStarts(n)
  \/ \E n \in 1..MaxChain, fulfilled \in BOOLEAN : SaveSettles(n, fulfilled)
  \/ CancelTimer

SpecQueue == Init /\ [][QueueNext]_vars

\* C27: saves of one table are serialized: never two executions of save() in
\* progress, and a save starts only when every save appended before it has
\* settled, that is in the order in which the timers fired.
C27_SavesSerialized ==
  /\ [](Cardinality(running) <= 1)
  /\ [][\A n \in 1..MaxChain :
          SaveStarts(n) => /\ running = {}
                           /\ \A m \in 1..(n - 1) : promises[m] = "fulfilled"]_vars

\* a second save was appended while the first was executing, and has started
\* after it
C27_Witness ==
  /\ Len(promises) >= 2
  /\ promises[1] = "fulfilled"
  /\ running = {2}

C29_CancelStopsTimer ==
  [][/\ CancelTimer => timeouts' = {}
     /\ \A h \in 1..MaxTimers : TimerFires(h) => h \notin cancelled]_vars

\* drop()/truncate() was called with a timer armed; later calls armed a new
\* timer and that one has fired
C29_Witness ==
  /\ cancelled # {}
  /\ timeouts = {}
  /\ promises # <<>>
  /\ timerHandle \notin cancelled

\* ------------------------------------------------------------------ compaction
\* the place of the first line of the log that carries id (0: none), and the
\* place of id in the resident map
FirstPlace(lines, id) ==
  IF \E i \in 1..Len(lines) : lines[i]["_id"] = id
  THEN CHOOSE i \in 1..Len(lines) :
         lines[i]["_id"] = id /\ \A j \in 1..(i - 1) : lines[j]["_id"] # id
  ELSE 0

\* what compaction writes for id: the pending update if there is one, else the
\* first line of the old log, else the resident record
Substituted(lines, d, id) ==
  IF MapHas(pendingUpdates, id) THEN MapGet(pendingUpdates, id)
  ELSE IF FirstPlace(lines, id) # 0 THEN lines[FirstPlace(lines, id)]
  ELSE MapGet(d, id)

\* out is the compaction of the old log lines and the resident map d
IsCompactionOf(out, lines, d) ==
  /\ \A id \in Ids :
       Occurrences(out, id) =
         IF ~Deleted(id) /\ (FirstPlace(lines, id) # 0 \/ MapHas(d, id)) THEN 1 ELSE 0
  /\ \A i \in 1..Len(out) : out[i] = Substituted(lines, d, out[i]["_id"])
  /\ \A i \in 1..Len(out), j \in 1..Len(out) :
       i < j =>
         LET a == FirstPlace(lines, out[i]["_id"])
             b == FirstPlace(lines, out[j]["_id"])
         IN IF b # 0 THEN a # 0 /\ a < b
            ELSE a # 0 \/ FirstPlace(d, out[i]["_id"]) < FirstPlace(d, out[j]["_id"])

\* C30: the rewritten log holds each id that is not marked deleted exactly
\* once and no deleted id; an id of the old log keeps the place of its first
\* line and is written with its pending update if there is one, else with that
\* first line; resident-only ids follow, under the same substitution.
C30_CompactionOutput ==
  [][(SaveCompact /\ ~saveReturnsEarly) =>
       IsCompactionOf(tempFile'.lines, IF logExists THEN logFile ELSE <<>>, data)]_vars

\* a compaction has written its output from a log with two lines for one id,
\* with an update pending
C30_Witness ==
  /\ savePc = "swap"
  /\ tempFile.exists
  /\ \E i \in 1..Len(logFile), j \in 1..Len(logFile) :
       i < j /\ logFile[i]["_id"] = logFile[j]["_id"]
  /\ pendingUpdates # <<>>

\* ------------------------------------------- several lines for one id (C31)
\* the most recently appended line of the log holding id, or Null
RECURSIVE LastLine(_, _)
LastLine(lines, id) ==
  IF lines = <<>> THEN Null
  ELSE IF lines[Len(lines)]["_id"] = id THEN lines[Len(lines)]
  ELSE LastLine(SubSeq(lines, 1, Len(lines) - 1), id)

SeveralLines(id) ==
  logExists /\ Cardinality({i \in 1..Len(logFile) : logFile[i]["_id"] = id}) >= 2

\* id is neither deleted nor pending in any buffer: its log lines are all it has
OnlyLogged(id) ==
  /\ ~Deleted(id)
  /\ ~MapHas(pendingUpdates, id)
  /\ ~MapHas(pendingWrites, id)

\* save() goes past its early return and rewrites the log
Compacts(elapsed) ==
  needsCompaction(elapsed) \/ Len(pendingUpdates) # 0 \/ pendingDeletes # {}

\* C31: when the log holds several lines for an id (and nothing is pending for
\* it), get(id) shows the most recently written line; a compaction keeps that
\* line, so the value visible for the id is the same after it; and a reload
\* shows it too.
C31_LatestLineVisible ==
  /\ [](\A id \in Ids :
          SeveralLines(id) /\ OnlyLogged(id) => get(id).rec = LastLine(logFile, id))
  /\ [][\A id \in Ids :
          SeveralLines(id) /\ OnlyLogged(id) =>
            /\ (\E elapsed \in BOOLEAN : SaveTimerFire(elapsed) /\ Compacts(elapsed))
               => /\ FirstLine(logFile', id) = LastLine(logFile, id)
                  /\ get(id).rec' = get(id).rec
            /\ Load => get(id).rec' = LastLine(logFile, id)]_vars

\* ------------------------------------------------------- scan modes (C32)
\* the resident branch of execute() on resident map d (no sort field)
residentExecute(q, d) ==
  Slice(FilterAll(OverlayAll(NotPendingDelete(d)) \o NotPendingDelete(pendingWrites),
                  q.nonIndexableConditions),
        q.skipCount, q.limitCount)

\* the unindexed queries: no predicate or one predicate on f, any skip and limit
ScanQueries ==
  {Paged(q, s, l) : q \in {NewQuery} \cup {find(NoIndices, c) : c \in CountConds},
                    s \in 0..MaxSkip, l \in 0..MaxLimit}

NotFullyResident == Len(data) < metadata.recordCount

\* C32: on a table that is not fully resident an unindexed query returns the
\* same records as the same query on the fully resident table a load of every
\* line of the log gives, with the same pending updates, deletes and writes.
C32_StreamedMatchesResident ==
  NotFullyResident =>
    \A q \in ScanQueries :
      Range(execute(q, NoIndices)) = Range(residentExecute(q, loadAllRecords))

\* -------------------------------------------------- count of the table (C33)
VisibleIds == {id \in Ids : get(id).rec # Null}

\* C33: in every state the unconditional count() is the number of distinct ids
\* for which get(id) returns a record.
C33_CountIsVisibleIds == count = Cardinality(VisibleIds)

\* ------------------------------------------------ tombstones and saves (C34)
\* C34: an id whose delete() returned true (its tombstone is in pendingDeletes)
\* stays absent across every step that is not its re-insert, the steps of a
\* save in flight that clears pendingDeletes included (truncate() and drop(),
\* which empty the table, set aside).
C34_TombstoneSurvivesSave ==
  [][\A id \in Ids :
       (/\ id \in pendingDeletes
        /\ ~(\E record \in InputRecords : Insert(record, id, clock))
        /\ ~TruncateBegin /\ ~Drop)
       => get(id).rec' = Null]_vars

\* --------------------------------------------- inserts and appends (C35)
\* id is still buffered in pendingWrites or has a line in the durable log
Stored(id) == MapHas(pendingWrites, id) \/ InLog(id)

\* C35: a record that is buffered or in the log, and not deleted, is still
\* buffered or in the log after every step other than truncate() and drop():
\* an append in flight does not empty the buffer of records it did not write,
\* and the rename of a compaction does not discard appended lines.
C35_InsertNotLost ==
  [][\A id \in Ids :
       (/\ Stored(id) /\ ~Deleted(id)
        /\ ~TruncateBegin /\ ~TruncateUnlinked /\ ~Drop)
       => Stored(id)']_vars

\* --------------------------------------- records only in pendingWrites (C36)
\* the ids whose record is buffered and nowhere else: not resident, not logged
OnlyPending ==
  {id \in MapKeys(pendingWrites) : ~Deleted(id) /\ ~MapHas(data, id) /\ ~InLog(id)}

\* C36: a record that is only in pendingWrites (and not deleted) is returned by
\* get(id), and by the indexed query on its value of f, whether or not the
\* cache still holds its entry.
C36_PendingWritesRetrievable ==
  \A id \in OnlyPending :
    /\ get(id).rec # Null
    /\ (hasIndex(indices, "f") /\ getFieldValue(get(id).rec, "f") # Undef)
         => id \in ResultIds(execute(find(indices, EqCond(getFieldValue(get(id).rec, "f"))),
                                     indices))

\* ------------------------------------------- the sorted index alone (C37)
\* The IndexManager driven by a caller that keeps its records in a Map and
\* always passes the record the index was last given for the id.
MaxIndexOps == 5

IndexCreate(field) ==
  /\ indices' = IndexManager_createIndex(indices, field, data)
  /\ UNCHANGED <<data, cache, pendingWrites, pendingUpdates, pendingDeletes, deletedIds,
                 metadata, saveTimer, diskVars, clock, otherVars>>

IndexPut(record, id) ==
  LET newRecord == insertRecord(record, id, clock)
      oldRecord == IF MapHas(data, id) THEN MapGet(data, id) ELSE Null
  IN /\ "_id" \in DOMAIN record => record["_id"] = id
     /\ indices' = updateIndices(indices, id, oldRecord, newRecord)
     /\ data' = MapSet(data, id, newRecord)
     /\ UNCHANGED <<cache, pendingWrites, pendingUpdates, pendingDeletes, deletedIds,
                    metadata, saveTimer, diskVars, clock, otherVars>>

IndexRemove(id) ==
  /\ MapHas(data, id)
  /\ indices' = removeFromIndices(indices, id, MapGet(data, id))
  /\ data' = MapDelete(data, id)
  /\ UNCHANGED <<cache, pendingWrites, pendingUpdates, pendingDeletes, deletedIds,
                 metadata, saveTimer, diskVars, clock, otherVars>>

IndexNext ==
  \/ \E field \in Fields : Call(MaxIndexOps) /\ IndexCreate(field)
  \/ \E record \in InputRecords, id \in Ids : Call(MaxIndexOps) /\ IndexPut(record, id)
  \/ \E id \in Ids : Call(MaxIndexOps) /\ IndexRemove(id)

SpecIndex == Init /\ [][IndexNext]_vars

IdsOf(values) == {values[i].id : i \in 1..Len(values)}

SortedIndexSound(index) ==
  /\ \A i, j \in 1..Len(index.values) : i < j => index.values[i].value <= index.values[j].value
  /\ \A i, j \in 1..Len(index.values) : index.values[i].id = index.values[j].id => i = j
  /\ IdsOf(index.values) = DOMAIN index.map
  /\ \A i \in 1..Len(index.values) : index.map[index.values[i].id] = index.values[i].value

\* C37: every sorted index has its values ordered by value, each id at most
\* once in them, and its id -> value map holding exactly the ids and values of
\* the entries; so a removed id leaves both, also among equal values.
C37_SortedIndexSound ==
  \A field \in DOMAIN indices :
    indices[field].type = "sorted" => SortedIndexSound(indices[field])

\* --------------------------------------- recordCount after compaction (C38)
\* C38: after every compaction the metadata written to the side file carries
\* the number of lines of the rewritten log as recordCount, whether or not the
\* table is fully resident.
C38_RecordCountIsLogLength ==
  [][(\E elapsed \in BOOLEAN : SaveTimerFire(elapsed) /\ Compacts(elapsed))
       => (metaFile'.exists /\ metaFile'.meta.recordCount = Len(logFile'))]_vars

\* ------------------------------------- the log after drop()/truncate() (C39)
\* no log, nothing buffered, nothing visible and no truncate() in progress: the
\* table as drop() and truncate() leave it when they resolve
Emptied ==
  ~logExists /\ pendingWrites = <<>> /\ truncPc = "idle" /\ VisibleIds = {}

\* C39: from such a state no step recreates the log or makes a record visible,
\* the steps of a save or append that was queued or in flight included; only
\* a new insert brings a record back, and it is buffered first.
C39_LogStaysAbsent ==
  [][Emptied => (~logExists' /\ VisibleIds' \subseteq MapKeys(pendingWrites'))]_vars

\* ------------------------------------ two-sided range without an index (C40)
StrictRangeCond(a, b) ==
  [field |-> "f", ops |-> [o \in {"gt", "lt"} |-> IF o = "gt" THEN a ELSE b]]

\* a < record.f < b
InStrictRange(record, a, b) ==
  getFieldValue(record, "f") # Undef /\ a < getFieldValue(record, "f")
  /\ getFieldValue(record, "f") < b

\* the index set a query on f is planned against when f has no sorted index:
\* none, or the table's own when its index on f is a hash index
UnsortedPlans ==
  {NoIndices} \cup (IF hasIndex(indices, "f") /\ getIndexType(indices, "f") = "hash"
                    THEN {indices} ELSE {})

\* C40: without a sorted index on f, {f: {$gte: a, $lte: b}} returns exactly
\* the records of the table with a <= f <= b, and {f: {$gt: a, $lt: b}}
\* exactly those with a < f < b.
C40_TwoSidedRangeUnindexed ==
  \A idx \in UnsortedPlans, a \in QueryVals, b \in QueryVals :
    /\ ResultIds(execute(find(idx, RangeCond(a, b)), idx))
         = ResultIds(SelectSeq(all, LAMBDA r : InRange(r, a, b)))
    /\ ResultIds(execute(find(idx, StrictRangeCond(a, b)), idx))
         = ResultIds(SelectSeq(all, LAMBDA r : InStrictRange(r, a, b)))

====
